---- MODULE Spec2Model ----
(***************************************************************************)
(* shh: an SSH host picker.  This module models the host normaliser, the   *)
(* history-line classifier, the SQLite-backed host store, the import of    *)
(* hosts from shell history, the ranking of the host list under a search   *)
(* query, the program from launch to exit with the key handlers of its     *)
(* modes, and the start of the ssh client on the selected host.            *)
(*                                                                         *)
(* A Go string is modelled as a sequence of one-character strings, so that *)
(* trimming, splitting, matching and lower-casing are computed character   *)
(* by character as the code computes them.                                 *)
(***************************************************************************)
EXTENDS Integers, Sequences, FiniteSets, TLC

VARIABLES
    raw,        \* normaliser run: the raw host string handed to normalizeHost
    normRes,    \* normaliser run: the outcome of the call
    line,       \* classifier run: the history line
    nPieces,    \* classifier run: how many pieces the line was built from
    parseRes,   \* classifier run: the outcome of parseHistoryLine
    hosts,      \* the hosts table: a set of rows
    nextId,     \* the AUTOINCREMENT counter of the hosts table
    lastCall,   \* the last store call: operation, host argument, error returned
    search,     \* model.list.search: the text of the search box
    allHosts,   \* model.allHosts: the snapshot of the last reload
    filteredIx, \* model.filteredIx: the ranking of the last applyFilter
    hist,       \* the history sources that possibleHistoryFiles names
    imp,        \* ImportFromHistory: its position, its locals, its record
    ui,         \* the process and the rest of model: mode, status, cursor, ...
    meta,       \* the meta table: the value of import_done, <<>> when absent
    execRes     \* execInUserShellLogin: what the call did and returned

vars == <<raw, normRes, line, nPieces, parseRes, hosts, nextId, lastCall,
          search, allHosts, filteredIx, hist, imp, ui, meta, execRes>>

normVars  == <<raw, normRes>>
parseVars == <<line, nPieces, parseRes>>
storeVars == <<hosts, nextId, lastCall>>
viewVars  == <<search, allHosts, filteredIx>>
importVars == <<hist, imp>>
uiVars     == <<ui, meta>>

(***************************************************************************)
(* Characters and strings                                                  *)
(***************************************************************************)
LowerLetters == <<"a","b","c","d","e","f","g","h","i","j","k","l","m",
                  "n","o","p","q","r","s","t","u","v","w","x","y","z">>
UpperLetters == <<"A","B","C","D","E","F","G","H","I","J","K","L","M",
                  "N","O","P","Q","R","S","T","U","V","W","X","Y","Z">>

Range(s) == {s[i] : i \in DOMAIN s}

Letters == Range(LowerLetters) \cup Range(UpperLetters)
Digits  == {"0","1","2","3","4","5","6","7","8","9"}

\* The escape character 0x1b and the backquote 0x60, which a TLA+ string
\* cannot hold, each written as one character of the model.
ESC == "ESC"
BQ  == "BQ"

\* unicode.IsSpace on the characters the model uses.
IsSpace(c) == c \in {" ", "\t", "\n", "\r", "\f"}

\* unicode.ToLower on one character.
LowerChar(c) ==
    IF \E i \in DOMAIN UpperLetters : UpperLetters[i] = c
    THEN LowerLetters[CHOOSE i \in DOMAIN UpperLetters : UpperLetters[i] = c]
    ELSE c

\* strings.ToLower
ToLower(s) == [i \in DOMAIN s |-> LowerChar(s[i])]

\* s[from:] and s[:to] of Go, on 1-based sequences: Drop removes the first n.
Drop(s, n) == SubSeq(s, n + 1, Len(s))
Take(s, n) == SubSeq(s, 1, n)

\* strings.TrimSpace: cut the leading and the trailing white space.
RECURSIVE TrimLeftSpace(_)
TrimLeftSpace(s) ==
    IF s # <<>> /\ IsSpace(s[1]) THEN TrimLeftSpace(Tail(s)) ELSE s

RECURSIVE TrimRightSpace(_)
TrimRightSpace(s) ==
    IF s # <<>> /\ IsSpace(s[Len(s)])
    THEN TrimRightSpace(Take(s, Len(s) - 1)) ELSE s

TrimSpace(s) == TrimRightSpace(TrimLeftSpace(s))

\* strings.Contains(s, c) for a one-character c.
ContainsChar(s, c) == \E i \in DOMAIN s : s[i] = c

\* strings.HasPrefix / strings.HasSuffix
HasPrefix(s, p) == Len(s) >= Len(p) /\ Take(s, Len(p)) = p
HasSuffix(s, p) == Len(s) >= Len(p) /\ Drop(s, Len(s) - Len(p)) = p

\* strings.Index / strings.LastIndex for a one-character c, 0-based, -1 if absent.
IndexChar(s, c) ==
    IF ContainsChar(s, c)
    THEN (CHOOSE i \in DOMAIN s : s[i] = c /\ \A j \in 1..(i-1) : s[j] # c) - 1
    ELSE -1

LastIndexChar(s, c) ==
    IF ContainsChar(s, c)
    THEN (CHOOSE i \in DOMAIN s : s[i] = c /\ \A j \in (i+1)..Len(s) : s[j] # c) - 1
    ELSE -1

(***************************************************************************)
(* The normaliser: safeHost, normalizeHost                                 *)
(***************************************************************************)
\* [A-Za-z0-9._-]
NameChars == Letters \cup Digits \cup {".", "_", "-"}
\* [0-9A-Fa-f:]
HexColonChars == Digits \cup {"a","b","c","d","e","f","A","B","C","D","E","F", ":"}

\* A mutant of safeHost: the pattern without its ^ and $ anchors, which
\* matches when some substring of s matches.
safeHostUnanchored(s) ==
    \/ \E i \in DOMAIN s : s[i] \in NameChars
    \/ \E i, j \in DOMAIN s :
          /\ i + 1 < j
          /\ s[i] = "[" /\ s[j] = "]"
          /\ \A k \in (i+1)..(j-1) : s[k] \in HexColonChars

\* safeHost.MatchString(s): ^(?:[A-Za-z0-9._-]+|\[[0-9A-Fa-f:]+\])$
safeHost(s) ==
    \/ /\ Len(s) >= 1
       /\ \A i \in DOMAIN s : s[i] \in NameChars
    \/ /\ Len(s) >= 3
       /\ s[1] = "[" /\ s[Len(s)] = "]"
       /\ \A i \in 2..(Len(s)-1) : s[i] \in HexColonChars

NormOk(h)  == [ok |-> TRUE,  host |-> h,    err |-> "nil"]
NormErr(e) == [ok |-> FALSE, host |-> <<>>, err |-> e]

\* A mutant of normalizeHost: the checks are made on the raw string and the
\* trimmed string is never computed.
normalizeHostNoTrim(rawHost) ==
    IF rawHost = <<>> THEN NormErr("host cannot be empty")
    ELSE IF ContainsChar(rawHost, " ") THEN NormErr("host cannot contain spaces")
    ELSE IF ~safeHost(rawHost) THEN NormErr("invalid host format")
    ELSE NormOk(rawHost)

\* A mutant of normalizeHost: an accepted host is returned without the
\* brackets around it.
normalizeHostUnbracketed(rawHost) ==
    LET host == TrimSpace(rawHost) IN
    IF host = <<>> THEN NormErr("host cannot be empty")
    ELSE IF ContainsChar(host, " ") THEN NormErr("host cannot contain spaces")
    ELSE IF ~safeHost(host) THEN NormErr("invalid host format")
    ELSE NormOk(IF host[1] = "[" THEN SubSeq(host, 2, Len(host) - 1)
                ELSE host)

\* normalizeHost(raw) (string, error)
normalizeHost(rawHost) ==
    LET host == TrimSpace(rawHost) IN
    IF host = <<>> THEN NormErr("host cannot be empty")
    ELSE IF ContainsChar(host, " ") THEN NormErr("host cannot contain spaces")
    ELSE IF ~safeHost(host) THEN NormErr("invalid host format")
    ELSE NormOk(host)

(***************************************************************************)
(* The history-line classifier: parseHistoryLine                           *)
(***************************************************************************)
\* The length of the longest prefix of s made of [0-9;].
RECURSIVE ParamRun(_)
ParamRun(s) ==
    IF s # <<>> /\ s[1] \in (Digits \cup {";"}) THEN 1 + ParamRun(Tail(s)) ELSE 0

\* The length of the match of \x1b\[[0-9;]*[A-Za-z] at the start of s, 0 if
\* none.  The two character classes are disjoint, so the greedy run of
\* parameters is the only candidate.
AnsiMatchLen(s) ==
    IF Len(s) >= 3 /\ s[1] = ESC /\ s[2] = "["
    THEN LET n == ParamRun(Drop(s, 2)) IN
         IF Len(s) >= n + 3 /\ s[n + 3] \in Letters THEN n + 3 ELSE 0
    ELSE 0

\* ansiRegexp.ReplaceAllString(s, ""): every leftmost match is removed.
RECURSIVE ansiStrip(_)
ansiStrip(s) ==
    IF s = <<>> THEN <<>>
    ELSE LET n == AnsiMatchLen(s) IN
         IF n > 0 THEN ansiStrip(Drop(s, n))
         ELSE <<s[1]>> \o ansiStrip(Tail(s))

\* The length of the longest prefix of s without white space.
RECURSIVE WordLen(_)
WordLen(s) ==
    IF s # <<>> /\ ~IsSpace(s[1]) THEN 1 + WordLen(Tail(s)) ELSE 0

\* strings.Fields(s): the maximal runs of characters that are not white space.
RECURSIVE Fields(_)
Fields(s) ==
    LET t == TrimLeftSpace(s) IN
    IF t = <<>> THEN <<>>
    ELSE LET n == WordLen(t) IN <<Take(t, n)>> \o Fields(Drop(t, n))

\* sshOptionsWithArg: the options of ssh that take a value.
sshOptionsWithArg ==
    { <<"-", c>> : c \in {"b","c","D","E","F","I","i","J","L","l","m","o",
                          "p","Q","R","S","W","w"} }

\* strings.Trim(s, "[]"): cut the leading and trailing '[' and ']'.
RECURSIVE TrimBrackets(_)
TrimBrackets(s) ==
    IF s # <<>> /\ s[1] \in {"[", "]"} THEN TrimBrackets(Tail(s))
    ELSE IF s # <<>> /\ s[Len(s)] \in {"[", "]"}
         THEN TrimBrackets(Take(s, Len(s) - 1))
    ELSE s

ParseFound(h) == [ok |-> TRUE,  host |-> h]
ParseNone     == [ok |-> FALSE, host |-> <<>>]

\* A mutant of SshIndex: the last such field instead of the first.
SshIndexLast(fields) ==
    LET isSsh(f) == \/ ToLower(f) = <<"s","s","h">>
                    \/ HasSuffix(ToLower(f), <<"/","s","s","h">>)
    IN IF \E i \in DOMAIN fields : isSsh(fields[i])
       THEN CHOOSE i \in DOMAIN fields :
                isSsh(fields[i])
                /\ \A j \in (i+1)..Len(fields) : ~isSsh(fields[j])
       ELSE 0

\* The index (1-based) of the first field that is "ssh" in any case or ends
\* with "/ssh" in any case; 0 when there is none.
SshIndex(fields) ==
    LET isSsh(f) == \/ ToLower(f) = <<"s","s","h">>
                    \/ HasSuffix(ToLower(f), <<"/","s","s","h">>)
    IN IF \E i \in DOMAIN fields : isSsh(fields[i])
       THEN CHOOSE i \in DOMAIN fields :
                isSsh(fields[i]) /\ \A j \in 1..(i-1) : ~isSsh(fields[j])
       ELSE 0

\* A mutant of TargetHost: the token is cut after its first '@'.
TargetHostFirstAt(token) ==
    LET at == IndexChar(token, "@")
        h  == IF at >= 0 THEN Drop(token, at + 1) ELSE token
    IN TrimBrackets(h)

\* A mutant of TargetHost: the brackets are left around the host.
TargetHostBracketed(token) ==
    LET at == LastIndexChar(token, "@")
    IN IF at >= 0 THEN Drop(token, at + 1) ELSE token

\* The part of the target token that is validated: after the last '@', with
\* the surrounding brackets cut.
TargetHost(token) ==
    LET at == LastIndexChar(token, "@")
        h  == IF at >= 0 THEN Drop(token, at + 1) ELSE token
    IN TrimBrackets(h)

\* A mutant of HostOfTarget: the candidate is returned as it is, without the
\* normaliser (the classifier as it was before normalizeHost existed).
HostOfTargetUnchecked(token) ==
    LET host == TargetHost(token) IN
    IF host = <<>> THEN ParseNone ELSE ParseFound(host)

\* parseHistoryLine, the target token reached: strip user@ and brackets,
\* validate, and report not-found when validation fails.
HostOfTarget(token) ==
    LET host == TargetHost(token) IN
    IF host = <<>> THEN ParseNone
    ELSE LET norm == normalizeHost(host) IN
         IF ~norm.ok THEN ParseNone ELSE ParseFound(norm.host)

\* A mutant of ScanFields: the field after a value-taking flag is consumed
\* only when it does not itself look like a flag.
RECURSIVE ScanFieldsValueAsFlag(_, _, _)
ScanFieldsValueAsFlag(fields, i, expectValue) ==
    IF i > Len(fields) THEN ParseNone
    ELSE LET token == fields[i] IN
         IF expectValue /\ ~HasPrefix(token, <<"-">>)
         THEN ScanFieldsValueAsFlag(fields, i + 1, FALSE)
         ELSE IF token = <<"-", "-">> THEN ScanFieldsValueAsFlag(fields, i + 1, FALSE)
         ELSE IF HasPrefix(ToLower(token), <<"-">>)
              THEN IF token \in sshOptionsWithArg /\ Len(token) = 2
                   THEN ScanFieldsValueAsFlag(fields, i + 1, TRUE)
                   ELSE ScanFieldsValueAsFlag(fields, i + 1, FALSE)
         ELSE HostOfTarget(token)

\* A mutant of ScanFields: a target that fails validation is passed over and
\* the scan goes on with the later fields.
RECURSIVE ScanFieldsFallback(_, _, _)
ScanFieldsFallback(fields, i, expectValue) ==
    IF i > Len(fields) THEN ParseNone
    ELSE LET token == fields[i] IN
         IF expectValue THEN ScanFieldsFallback(fields, i + 1, FALSE)
         ELSE IF token = <<"-", "-">> THEN ScanFieldsFallback(fields, i + 1, FALSE)
         ELSE IF HasPrefix(ToLower(token), <<"-">>)
              THEN IF token \in sshOptionsWithArg /\ Len(token) = 2
                   THEN ScanFieldsFallback(fields, i + 1, TRUE)
                   ELSE ScanFieldsFallback(fields, i + 1, FALSE)
         ELSE IF HostOfTarget(token).ok THEN HostOfTarget(token)
         ELSE ScanFieldsFallback(fields, i + 1, FALSE)

\* A mutant of ScanFields: "--" ends the flags, the field after it is the
\* target whatever it looks like.
RECURSIVE ScanFieldsDashDashEnds(_, _, _)
ScanFieldsDashDashEnds(fields, i, expectValue) ==
    IF i > Len(fields) THEN ParseNone
    ELSE LET token == fields[i] IN
         IF expectValue THEN ScanFieldsDashDashEnds(fields, i + 1, FALSE)
         ELSE IF token = <<"-", "-">>
              THEN IF i + 1 > Len(fields) THEN ParseNone
                   ELSE HostOfTarget(fields[i + 1])
         ELSE IF HasPrefix(ToLower(token), <<"-">>)
              THEN IF token \in sshOptionsWithArg /\ Len(token) = 2
                   THEN ScanFieldsDashDashEnds(fields, i + 1, TRUE)
                   ELSE ScanFieldsDashDashEnds(fields, i + 1, FALSE)
         ELSE HostOfTarget(token)

\* parseHistoryLine, the loop over the fields after the ssh token.
RECURSIVE ScanFields(_, _, _)
ScanFields(fields, i, expectValue) ==
    IF i > Len(fields) THEN ParseNone
    ELSE LET token == fields[i] IN
         IF expectValue THEN ScanFields(fields, i + 1, FALSE)
         ELSE IF token = <<"-", "-">> THEN ScanFields(fields, i + 1, FALSE)
         ELSE IF HasPrefix(ToLower(token), <<"-">>)
              THEN IF IndexChar(token, "=") >= 0
                   THEN ScanFields(fields, i + 1, FALSE)
                   ELSE IF Len(token) > 2 /\ ~ContainsChar(token, "=")
                   THEN ScanFields(fields, i + 1, FALSE)
                   ELSE IF token \in sshOptionsWithArg
                   THEN ScanFields(fields, i + 1, TRUE)
                   ELSE ScanFields(fields, i + 1, FALSE)
         ELSE HostOfTarget(token)

\* parseHistoryLine, the extended-history prefix: a line that starts with
\* ": " loses everything up to and including its first ';'.
StripHistoryPrefix(s) ==
    IF HasPrefix(s, <<":", " ">>) /\ IndexChar(s, ";") >= 0
    THEN Drop(s, IndexChar(s, ";") + 1)
    ELSE s

\* parseHistoryLine(line) (string, bool)
parseHistoryLine(l) ==
    LET trimmed == TrimSpace(ansiStrip(l)) IN
    IF trimmed = <<>> THEN ParseNone
    ELSE LET fields   == Fields(StripHistoryPrefix(trimmed))
             sshIndex == SshIndex(fields)
         IN IF Len(fields) = 0 THEN ParseNone
            ELSE IF sshIndex = 0 THEN ParseNone
            ELSE ScanFields(fields, sshIndex + 1, FALSE)

(***************************************************************************)
(* Bounds of the model                                                     *)
(***************************************************************************)
MaxRaw    == 4   \* characters of a raw host string in a normaliser run
MaxPieces == 4   \* pieces of a history line in a classifier run
MaxRows   == 2   \* rows ever inserted into the hosts table
MaxTime   == 2   \* readings of the wall clock
MaxUse    == 1   \* uses counted per row
MaxQuery  == 2   \* characters typed into the search box
MaxFiles  == 2   \* history sources of an import
MaxRuns   == 2   \* runs of ImportFromHistory

(***************************************************************************)
(* The store: the hosts table and the methods of Store                     *)
(***************************************************************************)
\* The characters of the model in the order of their byte values: SQLite's
\* BINARY collation and Go's < on strings both compare byte by byte.
ByteOrder ==
    <<"\t", "\n", "\f", "\r", ESC, " ", "\"", "$", "'", "-", ".", "/",
      "0","1","2","3","4","5","6","7","8","9", ":", ";", "=", "@">>
    \o UpperLetters \o <<"[", "]", "_", BQ>> \o LowerLetters \o <<"|">>

ByteOf(c) == CHOOSE i \in DOMAIN ByteOrder : ByteOrder[i] = c

\* a < b on strings
RECURSIVE StrLess(_, _)
StrLess(a, b) ==
    IF b = <<>> THEN FALSE
    ELSE IF a = <<>> THEN TRUE
    ELSE IF a[1] # b[1] THEN ByteOf(a[1]) < ByteOf(b[1])
    ELSE StrLess(Tail(a), Tail(b))

\* A row of hosts.  lastUsedAt = 0 is NULL (LastUsedAt.Valid = false).
Row(id, host, comment) ==
    [id |-> id, host |-> host, comment |-> comment, lastUsedAt |-> 0, useCount |-> 0]

StoreResult(H, nid, err) == [hosts |-> H, nextId |-> nid, err |-> err]

\* INSERT INTO hosts(host,comment): host is UNIQUE, id is AUTOINCREMENT,
\* last_used_at defaults to NULL and use_count to 0.
InsertHost(H, nid, host, comment) ==
    IF \E r \in H : r.host = host
    THEN StoreResult(H, nid, "UNIQUE constraint failed")
    ELSE StoreResult(H \cup {Row(nid, host, comment)}, nid + 1, "nil")

\* A mutant of AddHost: the raw host is inserted, the normalised one is only
\* used as the check for emptiness.
AddHostRaw(H, nid, host, comment, dbFails) ==
    IF TrimSpace(host) = <<>> THEN StoreResult(H, nid, "invalid host")
    ELSE IF dbFails THEN StoreResult(H, nid, "db")
    ELSE InsertHost(H, nid, host, TrimSpace(comment))

\* Store.AddHost.  dbFails: the database refuses the statement for a reason
\* of its own (locked, disk full), which leaves the table as it was.
AddHost(H, nid, host, comment, dbFails) ==
    LET norm == normalizeHost(host) IN
    IF ~norm.ok THEN StoreResult(H, nid, "invalid host")
    ELSE IF dbFails THEN StoreResult(H, nid, "db")
    ELSE InsertHost(H, nid, norm.host, TrimSpace(comment))

\* A mutant of UpdateHost: the host is written as it was typed.
UpdateHostUnchecked(H, nid, id, host, comment, dbFails) ==
    IF dbFails THEN StoreResult(H, nid, "db")
    ELSE IF ~\E r \in H : r.id = id THEN StoreResult(H, nid, "nil")
    ELSE StoreResult(
            {IF r.id = id
             THEN [r EXCEPT !.host = host, !.comment = TrimSpace(comment)]
             ELSE r : r \in H},
            nid, "nil")

\* Store.UpdateHost: UPDATE hosts SET host=?, comment=? WHERE id=?
UpdateHost(H, nid, id, host, comment, dbFails) ==
    LET norm == normalizeHost(host) IN
    IF ~norm.ok THEN StoreResult(H, nid, "invalid host")
    ELSE IF dbFails THEN StoreResult(H, nid, "db")
    ELSE IF ~\E r \in H : r.id = id THEN StoreResult(H, nid, "nil")
    ELSE IF \E r \in H : r.id # id /\ r.host = norm.host
         THEN StoreResult(H, nid, "UNIQUE constraint failed")
    ELSE StoreResult(
            {IF r.id = id
             THEN [r EXCEPT !.host = norm.host, !.comment = TrimSpace(comment)]
             ELSE r : r \in H},
            nid, "nil")

\* Store.DeleteHost: DELETE FROM hosts WHERE id=?
DeleteHost(H, nid, id, dbFails) ==
    IF dbFails THEN StoreResult(H, nid, "db")
    ELSE StoreResult({r \in H : r.id # id}, nid, "nil")

\* A mutant of MarkUsed: the use is counted and its time is not written.
MarkUsedCountOnly(H, nid, id, now, dbFails) ==
    IF dbFails THEN StoreResult(H, nid, "db")
    ELSE StoreResult(
            {IF r.id = id
             THEN [r EXCEPT !.useCount = r.useCount + 1]
             ELSE r : r \in H},
            nid, "nil")

\* Store.MarkUsed: use_count=use_count+1, last_used_at=now WHERE id=?
MarkUsed(H, nid, id, now, dbFails) ==
    IF dbFails THEN StoreResult(H, nid, "db")
    ELSE StoreResult(
            {IF r.id = id
             THEN [r EXCEPT !.useCount = r.useCount + 1, !.lastUsedAt = now]
             ELSE r : r \in H},
            nid, "nil")

\* isUniqueConstraintError
isUniqueConstraintError(err) == err = "UNIQUE constraint failed"

\* A mutant of ImportHost: a conflict on the host is returned as an error.
ImportHostStrict(H, nid, host, comment, dbFails) ==
    AddHost(H, nid, host, comment, dbFails)

\* Store.ImportHost: AddHost, with a conflict on the host taken as success.
ImportHost(H, nid, host, comment, dbFails) ==
    LET r == AddHost(H, nid, host, comment, dbFails) IN
    IF r.err = "nil" THEN r
    ELSE IF isUniqueConstraintError(r.err) THEN [r EXCEPT !.err = "nil"]
    ELSE r

\* The ORDER BY of ListHosts: rows with a last_used_at first, the latest
\* first, then by host ascending.
ListBefore(a, b) ==
    LET na == IF a.lastUsedAt = 0 THEN 1 ELSE 0
        nb == IF b.lastUsedAt = 0 THEN 1 ELSE 0
    IN IF na # nb THEN na < nb
       ELSE IF a.lastUsedAt # b.lastUsedAt THEN a.lastUsedAt > b.lastUsedAt
       ELSE StrLess(a.host, b.host)

\* Store.ListHosts: the rows in the order of the query.
RECURSIVE ListHosts(_)
ListHosts(H) ==
    IF H = {} THEN <<>>
    ELSE LET first == CHOOSE r \in H : \A o \in H \ {r} : ListBefore(r, o)
         IN <<first>> \o ListHosts(H \ {first})

(***************************************************************************)
(* The match engine: fuzzy.Find as model.matchingIndices calls it          *)
(***************************************************************************)
\* The bonuses and penalties of the scorer.
firstCharMatchBonus            == 10
matchFollowingSeparatorBonus   == 20
camelCaseMatchBonus            == 20
adjacentMatchBonus             == 5
unmatchedLeadingCharPenalty    == -5
maxUnmatchedLeadingCharPenalty == -15

isSeparator(c) == c \in {"/", "-", "_", " ", ".", "\\"}
IsLowerChar(c) == c \in Range(LowerLetters)
IsUpperChar(c) == c \in Range(UpperLetters)
Max(a, b) == IF a > b THEN a ELSE b

adjacentCharBonus(i, lastMatch, currentBonus) ==
    IF lastMatch = i THEN currentBonus * 2 + adjacentMatchBonus ELSE 0

\* The scorer's walk over one candidate string, from the 0-based position j.
\* st: pi the index into the pattern, total the score so far, best and mi
\* the best place found for the current pattern character, adj the running
\* bonus for adjacent matches, matched the 0-based places taken so far.
RECURSIVE FuzzyWalk(_, _, _, _)
FuzzyWalk(pattern, str, j, st) ==
    IF j >= Len(str) \/ st.pi >= Len(pattern) THEN st
    ELSE
    LET candidate == str[j + 1]
        last      == IF j = 0 THEN "" ELSE str[j]
        hit       == LowerChar(candidate) = LowerChar(pattern[st.pi + 1])
        bonus     == IF Len(st.matched) > 0
                     THEN adjacentCharBonus(j - 1, st.matched[Len(st.matched)], st.adj)
                     ELSE 0
        score     == (IF j = 0 THEN firstCharMatchBonus ELSE 0)
                   + (IF IsLowerChar(last) /\ IsUpperChar(candidate)
                      THEN camelCaseMatchBonus ELSE 0)
                   + (IF j # 0 /\ isSeparator(last)
                      THEN matchFollowingSeparatorBonus ELSE 0)
                   + bonus
        s1        == IF hit
                     THEN [st EXCEPT !.adj  = st.adj + bonus,
                                     !.best = IF score > st.best THEN score ELSE st.best,
                                     !.mi   = IF score > st.best THEN j ELSE st.mi]
                     ELSE st
        atEnd     == j + 1 >= Len(str)
        nextIsP   == /\ ~atEnd
                     /\ s1.pi < Len(pattern) - 1
                     /\ LowerChar(pattern[s1.pi + 2]) = LowerChar(str[j + 2])
        best2     == IF Len(s1.matched) = 0
                     THEN s1.best + Max(s1.mi * unmatchedLeadingCharPenalty,
                                        maxUnmatchedLeadingCharPenalty)
                     ELSE s1.best
        s2        == IF (nextIsP \/ atEnd) /\ s1.mi > -1
                     THEN [s1 EXCEPT !.total   = s1.total + best2,
                                     !.matched = Append(s1.matched, s1.mi),
                                     !.best    = -1,
                                     !.pi      = s1.pi + 1]
                     ELSE s1
    IN FuzzyWalk(pattern, str, j + 1, s2)

\* One candidate against the pattern: whether it matches and its score.
FuzzyMatch(pattern, str) ==
    LET st == FuzzyWalk(pattern, str, 0,
                  [pi |-> 0, total |-> 0, best |-> -1, mi |-> -1, adj |-> 0,
                   matched |-> <<>>])
    IN [matched |-> Len(st.matched) = Len(pattern),
        score   |-> st.total + Len(st.matched) - Len(str)]

\* fuzzy.Find(pattern, data): the candidates that match, each with its index
\* into data (1-based here) and its score.  An empty pattern matches nothing.
fuzzyFind(pattern, data) ==
    IF pattern = <<>> THEN {}
    ELSE { [index |-> i, score |-> FuzzyMatch(pattern, data[i]).score] :
             i \in {k \in DOMAIN data : FuzzyMatch(pattern, data[k]).matched} }

(***************************************************************************)
(* The ranking: model.matchingIndices                                      *)
(***************************************************************************)
\* A mutant of haystackOf: the note is left out of the searched text.
haystackHostOnly(h) == ToLower(h.host)

\* haystack[i] = strings.ToLower(h.Host + " " + h.Comment)
haystackOf(h) == ToLower(h.host \o <<" ">> \o h.comment)

\* A mutant of sortLess: the host tie-break is forgotten.
sortLessNoHost(all, mi, mj) ==
    IF mi.score = mj.score
    THEN LET hi == all[mi.index]
             hj == all[mj.index]
         IN IF hi.lastUsedAt # 0 /\ hj.lastUsedAt # 0
            THEN hi.lastUsedAt > hj.lastUsedAt
            ELSE IF (hi.lastUsedAt # 0) # (hj.lastUsedAt # 0)
            THEN hi.lastUsedAt # 0
            ELSE FALSE
    ELSE mi.score > mj.score

\* The less function handed to sort.Slice, on two matches mi and mj.
sortLess(all, mi, mj) ==
    IF mi.score = mj.score
    THEN LET hi == all[mi.index]
             hj == all[mj.index]
         IN IF hi.lastUsedAt # 0 /\ hj.lastUsedAt # 0
            THEN hi.lastUsedAt > hj.lastUsedAt
            ELSE IF (hi.lastUsedAt # 0) # (hj.lastUsedAt # 0)
            THEN hi.lastUsedAt # 0
            ELSE StrLess(hi.host, hj.host)
    ELSE mi.score > mj.score

\* The sequences that hold each element of the set S once.
RECURSIVE Orderings(_)
Orderings(S) ==
    IF S = {} THEN {<<>>}
    ELSE UNION { { <<x>> \o rest : rest \in Orderings(S \ {x}) } : x \in S }

\* sort.Slice(matches, less): an ordering of the matches in which no element
\* is less than one before it.  sort.Slice is not stable, so elements that
\* less does not order may come out either way.
sortSlice(all, matches) ==
    { o \in Orderings(matches) :
        \A i, j \in DOMAIN o : i < j => ~sortLess(all, o[j], o[i]) }

\* A mutant of matchingIndices: the empty query is not short-cut and every
\* host goes through the sort with a score of 0.
matchingIndicesAlwaysSorted(all, query) ==
    LET matches == IF query = <<>>
                   THEN { [index |-> i, score |-> 0] : i \in DOMAIN all }
                   ELSE fuzzyFind(ToLower(query),
                                  [i \in DOMAIN all |-> haystackOf(all[i])])
    IN { [k \in DOMAIN o |-> o[k].index] : o \in sortSlice(all, matches) }

\* model.matchingIndices(query): the index sequences (1-based) it may return.
matchingIndices(all, query) ==
    IF query = <<>> THEN { [i \in DOMAIN all |-> i] }
    ELSE LET haystack == [i \in DOMAIN all |-> haystackOf(all[i])]
             matches  == fuzzyFind(ToLower(query), haystack)
         IN { [k \in DOMAIN o |-> o[k].index] : o \in sortSlice(all, matches) }

(***************************************************************************)
(* State machines                                                          *)
(***************************************************************************)
NoNormRes  == [called |-> FALSE, ok |-> FALSE, host |-> <<>>]
NoParseRes == [called |-> FALSE, ok |-> FALSE, host |-> <<>>]
NoCall     == [op |-> "none", host |-> <<>>, err |-> "nil"]
NoExec     == [called |-> FALSE, err |-> "nil", reset |-> FALSE,
               started |-> FALSE, argv |-> <<>>]

\* No import has run.  phase, file, pos, seen, imported, errs and added are
\* the position and the locals of ImportFromHistory and importHistoryFile;
\* runs, before, handed, opened, failed and prevClean record what happened:
\* the number of runs, the table at the start of the run, the calls of
\* ImportHost of the run (host, source, error returned), the sources the
\* run tried to open, the sources on which an open, a read or an insertion
\* failed, and whether the run before this one returned no error.
NoImport ==
    [phase |-> "idle", file |-> 0, pos |-> 0, seen |-> {}, imported |-> 0,
     errs |-> <<>>, added |-> 0,
     runs |-> 0, before |-> {}, handed |-> <<>>, opened |-> {},
     failed |-> {}, prevClean |-> FALSE]

\* The process and the model fields other than the snapshot.  proc: the
\* program is not running ("stopped"), is in run() before the UI
\* ("startup"), or is in the UI ("running"); exit: how the last run ended
\* ("none", "quit" for tea.Quit, "error" for an error returned by run()).
\* mode, status, finalHost are the fields of model; cursor is
\* list.table.Cursor(); focus is the focused input of the form; busy: the
\* ctrl+r handler is inside ImportFromHistory.
ListModel ==
    [proc |-> "running", exit |-> "none", mode |-> "list", busy |-> FALSE,
     status |-> <<>>, finalHost |-> <<>>, cursor |-> 0, focus |-> 0]

\* The state after construction: nothing typed, nothing parsed, a new
\* database (ensureSchema on an empty file), an empty search box.
Init ==
    /\ raw = <<>> /\ normRes = NoNormRes
    /\ line = <<>> /\ nPieces = 0 /\ parseRes = NoParseRes
    /\ hosts = {} /\ nextId = 1 /\ lastCall = NoCall
    /\ search = <<>> /\ allHosts = <<>> /\ filteredIx = <<>>
    /\ hist = <<>> /\ imp = NoImport
    /\ ui = ListModel /\ meta = <<>> /\ execRes = NoExec

(***************************************************************************)
(* SpecNorm: normalizeHost on every raw string up to MaxRaw characters      *)
(***************************************************************************)
RawChars == {"a", "g", "-", " ", "\t", ";", "|", BQ, "'", "\"", "[", "]", ":"}

NormType(c) ==
    /\ ~normRes.called
    /\ Len(raw) < MaxRaw
    /\ raw' = Append(raw, c)
    /\ UNCHANGED <<normRes, parseVars, storeVars, viewVars, importVars, uiVars, execRes>>

NormCall ==
    /\ ~normRes.called
    /\ LET r == normalizeHost(raw) IN
       normRes' = [called |-> TRUE, ok |-> r.ok, host |-> r.host]
    /\ UNCHANGED <<raw, parseVars, storeVars, viewVars, importVars, uiVars, execRes>>

NextNorm == (\E c \in RawChars : NormType(c)) \/ NormCall

SpecNorm == Init /\ [][NextNorm]_vars

(***************************************************************************)
(* SpecExec: execInUserShellLogin on every raw string up to MaxRaw          *)
(* characters, on Windows and elsewhere, with each login shell              *)
(***************************************************************************)
\* strings.ReplaceAll(s, "'", `'"'"'`)
RECURSIVE ReplaceQuotes(_)
ReplaceQuotes(s) ==
    IF s = <<>> THEN <<>>
    ELSE (IF s[1] = "'" THEN <<"'", "\"", "'", "\"", "'">> ELSE <<s[1]>>)
         \o ReplaceQuotes(Tail(s))

\* shellQuote
shellQuote(s) ==
    IF s = <<>> THEN <<"'", "'">>
    ELSE <<"'">> \o ReplaceQuotes(s) \o <<"'">>

\* The values of $SHELL: unset, a shell started as a login shell, another.
Shells == { "", "/bin/zsh", "/bin/sh" }

\* filepath.Base of the shells above.
Base(shell) ==
    IF shell = "/bin/zsh" THEN "zsh"
    ELSE IF shell = "/bin/bash" THEN "bash"
    ELSE "sh"

\* How starting the process ends: it runs and succeeds ("ok"), it runs and
\* exits with a failure ("exit"), or it cannot be started ("fail").
Outcomes == { "ok", "exit", "fail" }

ExecResult(err, reset, started, argv) ==
    [called |-> TRUE, err |-> err, reset |-> reset, started |-> started,
     argv |-> argv]

\* A mutant of execInUserShellLogin: the terminal is reset before the host
\* is validated.
execInUserShellLoginResetFirst(rawHost, windows, envShell, outcome) ==
    LET norm == normalizeHost(rawHost) IN
    IF ~norm.ok THEN ExecResult(norm.err, TRUE, FALSE, <<>>)
    ELSE ExecResult("nil", TRUE, TRUE, <<"ssh", norm.host>>)

\* execInUserShellLogin(host): normalizeHost, then cleanupTerminal, then
\* "ssh host" as a child process on Windows, and elsewhere the login shell
\* in place of this process with the command "exec ssh 'host'".  reset:
\* cleanupTerminal was called; started: a process was started; argv: its
\* arguments.
execInUserShellLogin(rawHost, windows, envShell, outcome) ==
    LET norm == normalizeHost(rawHost) IN
    IF ~norm.ok THEN ExecResult(norm.err, FALSE, FALSE, <<>>)
    ELSE IF windows
    THEN LET argv == <<"ssh", norm.host>> IN
         IF outcome = "ok" THEN ExecResult("nil", TRUE, TRUE, argv)
         ELSE IF outcome = "exit"
              THEN ExecResult("exit status", TRUE, TRUE, argv)
         ELSE ExecResult("exec", TRUE, FALSE, <<>>)
    ELSE LET shell == IF envShell = "" THEN "/bin/bash" ELSE envShell
             cmd   == <<"exec ssh ">> \o shellQuote(norm.host)
             argv  == IF Base(shell) \in {"bash", "zsh", "fish"}
                      THEN <<shell, "-l", "-i", "-c", cmd>>
                      ELSE <<shell, "-i", "-c", cmd>>
         IN IF outcome = "fail" THEN ExecResult("exec shell", TRUE, FALSE, <<>>)
            ELSE ExecResult("nil", TRUE, TRUE, argv)

ExecType(c) ==
    /\ ~execRes.called
    /\ Len(raw) < MaxRaw
    /\ raw' = Append(raw, c)
    /\ UNCHANGED <<normRes, parseVars, storeVars, viewVars, importVars, uiVars,
                   execRes>>

ExecCall ==
    \E windows \in BOOLEAN, envShell \in Shells, outcome \in Outcomes :
        /\ ~execRes.called
        /\ execRes' = execInUserShellLogin(raw, windows, envShell, outcome)
        /\ UNCHANGED <<normVars, parseVars, storeVars, viewVars, importVars,
                       uiVars>>

NextExec == (\E c \in RawChars : ExecType(c)) \/ ExecCall

SpecExec == Init /\ [][NextExec]_vars

(***************************************************************************)
(* SpecParse: parseHistoryLine on lines built from up to MaxPieces pieces   *)
(***************************************************************************)
\* The pieces a history line is built from; pieces are joined by one space.
LinePieces ==
    { <<"s","s","h">>,
      <<"-","p">>,
      <<"-","v">>,
      <<"-","-">>,
      <<"a">>,
      <<"u","@","a">>,
      <<"a",";","b">>,
      <<"[",":","a","]">>,
      <<":"," ","1",":","0",";","S","s","h">>,
      <<ESC,"[","1","m","x","/","s","s","h">> }

ParseAppend(p) ==
    /\ ~parseRes.called
    /\ nPieces < MaxPieces
    /\ line' = IF nPieces = 0 THEN p ELSE line \o <<" ">> \o p
    /\ nPieces' = nPieces + 1
    /\ UNCHANGED <<parseRes, normVars, storeVars, viewVars, importVars, uiVars, execRes>>

ParseCall ==
    /\ ~parseRes.called
    /\ LET r == parseHistoryLine(line) IN
       parseRes' = [called |-> TRUE, ok |-> r.ok, host |-> r.host]
    /\ UNCHANGED <<line, nPieces, normVars, storeVars, viewVars, importVars, uiVars, execRes>>

NextParse == (\E p \in LinePieces : ParseAppend(p)) \/ ParseCall

SpecParse == Init /\ [][NextParse]_vars

(***************************************************************************)
(* SpecParseHead: parseHistoryLine on lines that differ in what comes       *)
(* before the arguments: history prefixes and spellings of the command      *)
(***************************************************************************)
HeadPieces ==
    { <<"s","s","h">>,
      <<"x","s","s","h">>,
      <<"x","/","S","S","H">>,
      <<"-","p">>,
      <<"a">>,
      <<":"," ","1",":","0",";","s","s","h">>,
      <<":"," ","1",";","s","s","h">>,
      <<":"," ","x",";","s","s","h">> }

NextParseHead == (\E p \in HeadPieces : ParseAppend(p)) \/ ParseCall

SpecParseHead == Init /\ [][NextParseHead]_vars

(***************************************************************************)
(* SpecParseArgs: parseHistoryLine on the lines "ssh" followed by up to     *)
(* MaxPieces arguments: flags of every form and targets with a user part    *)
(***************************************************************************)
ArgPieces ==
    { <<"-","p">>,
      <<"-","p","2","2">>,
      <<"-","o","=","x">>,
      <<"-","v">>,
      <<"-","-">>,
      <<"a">>,
      <<"w","@","u","@","[","a","]">>,
      <<"u","@","[",":","a","]">>,
      <<"x","@","-","v">> }

ArgAppend(p) ==
    /\ ~parseRes.called
    /\ nPieces < MaxPieces
    /\ line' = (IF nPieces = 0 THEN <<"s","s","h">> ELSE line) \o <<" ">> \o p
    /\ nPieces' = nPieces + 1
    /\ UNCHANGED <<parseRes, normVars, storeVars, viewVars, importVars, uiVars, execRes>>

NextParseArgs == (\E p \in ArgPieces : ArgAppend(p)) \/ ParseCall

SpecParseArgs == Init /\ [][NextParseArgs]_vars

(***************************************************************************)
(* SpecParseTarget: parseHistoryLine on the lines "ssh" followed by one     *)
(* target of up to MaxTarget characters: user parts, brackets and colons    *)
(* at every place                                                          *)
(***************************************************************************)
MaxTarget == 6

TargetChars == { "a", ":", "[", "]", "@" }

TargetType(c) ==
    /\ ~parseRes.called
    /\ Len(line) < 4 + MaxTarget
    /\ line' = (IF line = <<>> THEN <<"s","s","h"," ">> ELSE line) \o <<c>>
    /\ UNCHANGED <<nPieces, parseRes, normVars, storeVars, viewVars,
                   importVars, uiVars, execRes>>

NextParseTarget == (\E c \in TargetChars : TargetType(c)) \/ ParseCall

SpecParseTarget == Init /\ [][NextParseTarget]_vars

(***************************************************************************)
(* Spec: any sequence of calls of the store's methods                      *)
(***************************************************************************)
\* Host arguments: three that normalizeHost accepts (one of them with white
\* space around it, one bracketed) and three that it rejects.
HostInputs ==
    { <<"a">>, <<" ","b","\t">>, <<"[",":","a","]">>,
      <<>>, <<"a"," ","b">>, <<"a",";","b">> }

\* The note typed into the form, and the note ImportFromHistory gives.
FormComment  == <<" ","n">>
ImportedNote == <<"i","m","p","o","r","t","e","d"," ","f","r","o","m"," ",
                  "h","i","s","t","o","r","y">>

Ids   == 1..MaxRows
Times == 1..MaxTime

\* The clock readings of the store's callers in Spec: one reading, so that
\* two rows used at the same instant are reachable.
StoreTimes == {MaxTime}

StoreStep(op, host, r) ==
    /\ hosts' = r.hosts
    /\ nextId' = r.nextId
    /\ lastCall' = [op |-> op, host |-> host, err |-> r.err]
    /\ UNCHANGED <<normVars, parseVars, viewVars, importVars, uiVars, execRes>>

CallAddHost ==
    \E h \in HostInputs, f \in BOOLEAN :
        /\ nextId <= MaxRows
        /\ StoreStep("AddHost", h, AddHost(hosts, nextId, h, FormComment, f))

CallImportHost ==
    \E h \in HostInputs, f \in BOOLEAN :
        /\ nextId <= MaxRows
        /\ StoreStep("ImportHost", h, ImportHost(hosts, nextId, h, ImportedNote, f))

CallUpdateHost ==
    \E id \in Ids, h \in HostInputs, f \in BOOLEAN :
        StoreStep("UpdateHost", h, UpdateHost(hosts, nextId, id, h, FormComment, f))

CallDeleteHost ==
    \E id \in Ids, f \in BOOLEAN :
        StoreStep("DeleteHost", <<>>, DeleteHost(hosts, nextId, id, f))

CallMarkUsed ==
    \E id \in Ids, now \in StoreTimes, f \in BOOLEAN :
        /\ \A r \in hosts : r.id = id => r.useCount < MaxUse
        /\ StoreStep("MarkUsed", <<>>, MarkUsed(hosts, nextId, id, now, f))

Next ==
    \/ CallAddHost
    \/ CallImportHost
    \/ CallUpdateHost
    \/ CallDeleteHost
    \/ CallMarkUsed

Spec == Init /\ [][Next]_vars

(***************************************************************************)
(* SpecRank: the list view over a store that the user fills and uses       *)
(***************************************************************************)
\* model.reload followed by applyFilter: the snapshot is the store's list
\* and the ranking one of the outcomes of matchingIndices on the trimmed
\* search text.
Reloaded(H, text) ==
    /\ allHosts' = ListHosts(H)
    /\ filteredIx' \in matchingIndices(ListHosts(H), TrimSpace(text))

\* What the user saves in the add form: a host and a note.  Three hosts
\* that normalizeHost accepts, one of them in upper case, and one that it
\* rejects.
FormEntries ==
    { [host |-> <<"a">>,     comment |-> <<"b">>],
      [host |-> <<"a","b">>, comment |-> <<>>],
      [host |-> <<"B">>,     comment |-> <<" ","b">>],
      [host |-> <<"a",";">>, comment |-> <<>>] }

SearchChars == { "a", "B", " " }

\* handleFormKey, enter in add mode: AddHost, and on success reload.
SaveAddForm ==
    \E e \in FormEntries, f \in BOOLEAN :
        /\ nextId <= MaxRows
        /\ LET r == AddHost(hosts, nextId, e.host, e.comment, f) IN
           /\ hosts' = r.hosts
           /\ nextId' = r.nextId
           /\ IF r.err = "nil"
              THEN Reloaded(r.hosts, search) /\ UNCHANGED search
              ELSE UNCHANGED viewVars
        /\ UNCHANGED <<lastCall, normVars, parseVars, importVars, uiVars, execRes>>

\* handleListKey, enter on a row of the list: MarkUsed and quit; the next
\* launch builds a new model (empty search box) and reloads.
EnterAndRelaunch ==
    \E k \in DOMAIN filteredIx, now \in Times :
        LET sel == allHosts[filteredIx[k]]
            r   == MarkUsed(hosts, nextId, sel.id, now, FALSE)
        IN /\ sel.useCount < MaxUse
           /\ hosts' = r.hosts
           /\ search' = <<>>
           /\ Reloaded(r.hosts, <<>>)
           /\ UNCHANGED <<nextId, lastCall, normVars, parseVars, importVars, uiVars, execRes>>

\* A mutant of TypeSearch: the ranking turns the snapshot round in place.
TypeSearchReversesSnapshot ==
    \E c \in SearchChars :
        /\ Len(search) < MaxQuery
        /\ search' = Append(search, c)
        /\ allHosts' = [k \in DOMAIN allHosts |-> allHosts[Len(allHosts) + 1 - k]]
        /\ filteredIx' \in matchingIndices(allHosts', TrimSpace(search'))
        /\ UNCHANGED <<storeVars, normVars, parseVars, importVars, uiVars, execRes>>

\* Update, a character typed into the search box: applyFilter(true).
TypeSearch ==
    \E c \in SearchChars :
        /\ Len(search) < MaxQuery
        /\ search' = Append(search, c)
        /\ allHosts' = allHosts
        /\ filteredIx' \in matchingIndices(allHosts, TrimSpace(search'))
        /\ UNCHANGED <<storeVars, normVars, parseVars, importVars, uiVars, execRes>>

\* handleListKey, esc: the search box is cleared, applyFilter(true).
EscSearch ==
    /\ search # <<>>
    /\ search' = <<>>
    /\ allHosts' = allHosts
    /\ filteredIx' \in matchingIndices(allHosts, <<>>)
    /\ UNCHANGED <<storeVars, normVars, parseVars, importVars, uiVars, execRes>>

NextRank == SaveAddForm \/ EnterAndRelaunch \/ TypeSearch \/ EscSearch

SpecRank == Init /\ [][NextRank]_vars

(***************************************************************************)
(* SpecImport: runs of ImportFromHistory over a history that stays as it   *)
(* is, on a catalog the user may have filled before                        *)
(***************************************************************************)
\* The history sources: a file that does not exist, and four files of one
\* or two lines ("ssh a", "ssh u@a" then "ssh a", "ssh b" then "ssh a",
\* "ssh a;b" then "ssh b").
HistoryFiles ==
    { [missing |-> TRUE,  lines |-> <<>>],
      [missing |-> FALSE, lines |-> << <<"s","s","h"," ","a">> >>],
      [missing |-> FALSE, lines |-> << <<"s","s","h"," ","u","@","a">>,
                                       <<"s","s","h"," ","a">> >>],
      [missing |-> FALSE, lines |-> << <<"s","s","h"," ","b">>,
                                       <<"s","s","h"," ","a">> >>],
      [missing |-> FALSE, lines |-> << <<"s","s","h"," ","a",";","b">>,
                                       <<"s","s","h"," ","b">> >>] }

\* possibleHistoryFiles: the lists of up to n sources.
RECURSIVE Histories(_)
Histories(n) ==
    IF n = 0 THEN {<<>>}
    ELSE Histories(n - 1) \cup
         { Append(h, f) : h \in {x \in Histories(n - 1) : Len(x) = n - 1},
                          f \in HistoryFiles }

InitImport ==
    /\ raw = <<>> /\ normRes = NoNormRes
    /\ line = <<>> /\ nPieces = 0 /\ parseRes = NoParseRes
    /\ hosts = {} /\ nextId = 1 /\ lastCall = NoCall
    /\ search = <<>> /\ allHosts = <<>> /\ filteredIx = <<>>
    /\ hist \in Histories(MaxFiles) /\ imp = NoImport
    /\ ui = ListModel /\ meta = <<>> /\ execRes = NoExec

\* A mutant of ImportFileReturned: the first source that fails ends the run.
ImportFileReturnedAbort(m, fileImported, failed) ==
    IF failed
    THEN [m EXCEPT !.errs = Append(@, m.file), !.phase = "done"]
    ELSE [m EXCEPT !.imported = @ + fileImported,
                   !.file = m.file + 1, !.pos = 0, !.added = 0,
                   !.phase = IF m.file + 1 > Len(hist) THEN "done" ELSE "open"]

\* ImportFromHistory, the body of its loop once importHistoryFile has
\* returned (fileImported, err): an error is appended to errs and the count
\* of the source is skipped; otherwise the count is added.  Then the next
\* source, or the return after the last.
ImportFileReturned(m, fileImported, failed) ==
    LET m1 == IF failed
              THEN [m EXCEPT !.errs = Append(@, m.file)]
              ELSE [m EXCEPT !.imported = @ + fileImported]
    IN [m1 EXCEPT !.file = m.file + 1, !.pos = 0, !.added = 0,
                  !.phase = IF m.file + 1 > Len(hist) THEN "done" ELSE "open"]

\* A mutant of OpenHistoryFile: a source that does not exist is an error
\* like any other failure to open.
OpenHistoryFileMissingIsError(m, openFails) ==
    LET o == [m EXCEPT !.opened = @ \cup {m.file}] IN
    IF hist[m.file].missing \/ openFails
    THEN ImportFileReturned(o, 0, TRUE)
    ELSE [o EXCEPT !.phase = "scan", !.pos = 1, !.added = 0]

\* importHistoryFile, os.Open: a source that does not exist returns (0, nil),
\* another failure to open returns (0, err), otherwise the scan starts.
OpenHistoryFile(m, openFails) ==
    LET o == [m EXCEPT !.opened = @ \cup {m.file}] IN
    IF hist[m.file].missing THEN ImportFileReturned(o, 0, FALSE)
    ELSE IF openFails
    THEN ImportFileReturned([o EXCEPT !.failed = @ \cup {m.file}], 0, TRUE)
    ELSE [o EXCEPT !.phase = "scan", !.pos = 1, !.added = 0]

\* A mutant of SkipLine: no look into seen.
SkipLineNoDedup(m, parsed) == ~parsed.ok

\* importHistoryFile: a line is passed over when it has no host or when its
\* host is already in seen.
SkipLine(m, parsed) == ~parsed.ok \/ parsed.host \in m.seen

\* ImportFromHistory, its entry: new errs, seen and imported, the first
\* source next; m is the record of the run before, H the table.
ImportCalled(m, H) ==
    [NoImport EXCEPT
        !.phase = IF Len(hist) = 0 THEN "done" ELSE "open",
        !.file = 1,
        !.runs = m.runs + 1,
        !.before = H,
        !.prevClean = (m.phase = "done" /\ m.errs = <<>>)]

\* ImportFromHistory is called (at the first launch, or by ctrl+r): new
\* errs, seen and imported; with no source at all it returns (0, nil).
StartImport ==
    /\ imp.phase \in {"idle", "done"}
    /\ imp.runs < MaxRuns
    /\ imp' = ImportCalled(imp, hosts)
    /\ UNCHANGED <<hist, storeVars, normVars, parseVars, viewVars, uiVars, execRes>>

\* importHistoryFile opens the next source.
OpenFile ==
    /\ imp.phase = "open"
    /\ \E openFails \in BOOLEAN : imp' = OpenHistoryFile(imp, openFails)
    /\ UNCHANGED <<hist, storeVars, normVars, parseVars, viewVars, uiVars, execRes>>

\* importHistoryFile, one turn of the scanner loop on a line that was read:
\* a line without a host and a host already seen are passed over; another
\* host is handed to ImportHost, whose error ends the source, and whose
\* success puts the host into seen and counts it.
ScanLine ==
    /\ imp.phase = "scan"
    /\ imp.pos <= Len(hist[imp.file].lines)
    /\ \E dbFails \in BOOLEAN :
          LET parsed == parseHistoryLine(hist[imp.file].lines[imp.pos]) IN
          IF SkipLine(imp, parsed)
          THEN /\ imp' = [imp EXCEPT !.pos = @ + 1]
               /\ UNCHANGED <<hosts, nextId>>
          ELSE LET r   == ImportHost(hosts, nextId, parsed.host, ImportedNote, dbFails)
                   log == Append(imp.handed,
                                 [host |-> parsed.host, file |-> imp.file,
                                  err |-> r.err])
               IN /\ hosts' = r.hosts
                  /\ nextId' = r.nextId
                  /\ imp' = IF r.err # "nil"
                            THEN ImportFileReturned(
                                    [imp EXCEPT !.handed = log,
                                                !.failed = @ \cup {imp.file}],
                                    imp.added, TRUE)
                            ELSE [imp EXCEPT !.handed = log,
                                             !.seen = @ \cup {parsed.host},
                                             !.added = @ + 1,
                                             !.pos = @ + 1]
    /\ UNCHANGED <<hist, lastCall, normVars, parseVars, viewVars, uiVars, execRes>>

\* importHistoryFile, the scanner stops on a read error: (added, err).
ReadError ==
    /\ imp.phase = "scan"
    /\ imp' = ImportFileReturned([imp EXCEPT !.failed = @ \cup {imp.file}],
                                 imp.added, TRUE)
    /\ UNCHANGED <<hist, storeVars, normVars, parseVars, viewVars, uiVars, execRes>>

\* importHistoryFile, the scanner reaches the end of the source: (added, nil).
EndOfFile ==
    /\ imp.phase = "scan"
    /\ imp.pos > Len(hist[imp.file].lines)
    /\ imp' = ImportFileReturned(imp, imp.added, FALSE)
    /\ UNCHANGED <<hist, storeVars, normVars, parseVars, viewVars, uiVars, execRes>>

\* Before the first import the user saves host "a" in the add form.
UserAddsHost ==
    /\ imp.phase = "idle"
    /\ hosts = {}
    /\ LET r == AddHost(hosts, nextId, <<"a">>, FormComment, FALSE) IN
       hosts' = r.hosts /\ nextId' = r.nextId
    /\ UNCHANGED <<hist, imp, lastCall, normVars, parseVars, viewVars, uiVars, execRes>>

\* Before the first import the user connects to a host of the catalog.
UserUsesHost ==
    /\ imp.phase = "idle"
    /\ \E r \in hosts, now \in StoreTimes :
          /\ r.useCount < MaxUse
          /\ hosts' = MarkUsed(hosts, nextId, r.id, now, FALSE).hosts
    /\ UNCHANGED <<hist, imp, nextId, lastCall, normVars, parseVars, viewVars, uiVars, execRes>>

NextImport ==
    \/ StartImport
    \/ OpenFile
    \/ ScanLine
    \/ ReadError
    \/ EndOfFile
    \/ UserAddsHost
    \/ UserUsesHost

SpecImport == InitImport /\ [][NextImport]_vars

(***************************************************************************)
(* SpecUI: the program from launch to exit: run(), the key handlers of the  *)
(* three modes, and the imports they start.  The database refuses no       *)
(* statement of the UI's own calls here; the sources of an import may fail *)
(* to open or to be read, and an insertion of the import may fail.         *)
(***************************************************************************)
\* The lines a page key moves the cursor by: the least height of the table.
PageSize == 5

\* The sources of the launches: one holds "ssh a", the other "ssh u@a".
UIHistory ==
    << [missing |-> FALSE, lines |-> << <<"s","s","h"," ","a">> >>],
       [missing |-> FALSE, lines |-> << <<"s","s","h"," ","u","@","a">> >>] >>

\* What the user submits in the form: a new host, the host of the history
\* with a space before it, and a host that normalizeHost rejects.
UIFormEntries ==
    { [host |-> <<"c">>,     comment |-> <<>>],
      [host |-> <<" ","a">>, comment |-> <<>>],
      [host |-> <<"a",";">>, comment |-> <<>>] }

UISearchChars == { "c" }

\* The program is not running.
Stopped(exit, finalHost) ==
    [ListModel EXCEPT !.proc = "stopped", !.exit = exit,
                      !.finalHost = finalHost]

InitUI ==
    /\ raw = <<>> /\ normRes = NoNormRes
    /\ line = <<>> /\ nPieces = 0 /\ parseRes = NoParseRes
    /\ hosts = {} /\ nextId = 1 /\ lastCall = NoCall
    /\ search = <<>> /\ allHosts = <<>> /\ filteredIx = <<>>
    /\ hist = UIHistory /\ imp = NoImport
    /\ ui = Stopped("none", <<>>) /\ meta = <<>> /\ execRes = NoExec

\* table.SetRows with n rows while the cursor is at c: the cursor stays, or
\* is pulled back to the last row, depending on the version of the table.
SetRowsCursor(c, n) == {c, IF c > n - 1 THEN n - 1 ELSE c}

\* table.MoveUp, table.MoveDown: the cursor is kept within the n rows.
ClampCursor(c, n) == IF c < 0 THEN 0 ELSE IF c > n - 1 THEN n - 1 ELSE c

\* applyFilter(resetCursor), the cursor after it, n rows being shown.
ApplyFilterCursor(prevCursor, n, resetCursor) ==
    IF n = 0 THEN SetRowsCursor(prevCursor, 0)
    ELSE IF resetCursor THEN {0}
    ELSE {ClampCursor(prevCursor, n)}

\* applyFilter on the snapshot all with the search text: the ranking and
\* the cursor; u is the model with its other fields already set.
Filtered(all, text, resetCursor, u) ==
    \E fix \in matchingIndices(all, TrimSpace(text)) :
    \E c \in ApplyFilterCursor(u.cursor, Len(fix), resetCursor) :
        /\ allHosts' = all
        /\ filteredIx' = fix
        /\ ui' = [u EXCEPT !.cursor = c]

\* A mutant of currentSelection: the cursor row is looked up in the
\* snapshot, not in the ranking.
currentSelectionUnfiltered(all, fix, cursor) ==
    IF Len(fix) = 0 \/ cursor < 0 \/ cursor >= Len(fix)
    THEN [ok |-> FALSE, rec |-> Row(0, <<>>, <<>>)]
    ELSE [ok |-> TRUE, rec |-> all[cursor + 1]]

\* currentSelection: the record at the cursor row of the ranking.
currentSelection(all, fix, cursor) ==
    IF Len(fix) = 0 \/ cursor < 0 \/ cursor >= Len(fix)
    THEN [ok |-> FALSE, rec |-> Row(0, <<>>, <<>>)]
    ELSE [ok |-> TRUE, rec |-> all[fix[cursor + 1]]]

Selection == currentSelection(allHosts, filteredIx, ui.cursor)

\* A mutant of ImportDoneAfter: import_done is set after every import.
ImportDoneAlways(errs, cur) == <<"1">>

\* The value of import_done after an import that returned errs: SetMeta
\* is called only when the import returned no error.
ImportDoneAfter(errs, cur) == IF errs = <<>> THEN <<"1">> ELSE cur

\* run(): the import at startup is due unless import_done is "1".
AutoImportDue(m) == m # <<"1">>

\* ImportFromHistory has returned to its caller: its locals are gone, the
\* number of runs so far is kept.
ImportReturned(m) == [NoImport EXCEPT !.runs = m.runs]

\* newModel: a new model in list mode, an empty search box, and reload.
NewModel ==
    /\ search' = <<>>
    /\ Filtered(ListHosts(hosts), <<>>, FALSE, ListModel)

\* run() up to the UI: GetMeta, then ImportFromHistory if it is due, else
\* newModel at once.
Launch ==
    /\ ui.proc = "stopped"
    /\ IF AutoImportDue(meta)
       THEN /\ imp.runs < MaxRuns
            /\ imp' = ImportCalled(imp, hosts)
            /\ ui' = [ListModel EXCEPT !.proc = "startup"]
            /\ UNCHANGED viewVars
       ELSE NewModel /\ UNCHANGED imp
    /\ UNCHANGED <<hist, meta, storeVars, normVars, parseVars, execRes>>

\* run(), ImportFromHistory has returned: an error ends the program;
\* otherwise SetMeta(import_done, "1") and newModel.
LaunchImportReturned ==
    /\ ui.proc = "startup"
    /\ imp.phase = "done"
    /\ meta' = ImportDoneAfter(imp.errs, meta)
    /\ IF imp.errs # <<>>
       THEN /\ ui' = Stopped("error", <<>>)
            /\ UNCHANGED viewVars
       ELSE NewModel
    /\ imp' = ImportReturned(imp)
    /\ UNCHANGED <<hist, storeVars, normVars, parseVars, execRes>>

\* The UI takes a key in the given mode.
InMode(m) == ui.proc = "running" /\ ui.mode = m /\ ~ui.busy

\* tea.Quit: the program ends; prog.Run returns the last model, of which
\* run() reads finalHost.
Quit(u) ==
    /\ ui' = [u EXCEPT !.proc = "stopped", !.exit = "quit"]
    /\ UNCHANGED viewVars

\* handleListKey, "q" and "ctrl+c".
ListQuit ==
    /\ InMode("list")
    /\ Quit(ui)
    /\ UNCHANGED <<importVars, meta, storeVars, normVars, parseVars, execRes>>

\* handleListKey, "esc": the search box is cleared, applyFilter(true).
ListEsc ==
    /\ InMode("list")
    /\ search' = <<>>
    /\ Filtered(allHosts, <<>>, TRUE, ui)
    /\ UNCHANGED <<importVars, meta, storeVars, normVars, parseVars, execRes>>

\* handleListKey, "up", "down", "pgup", "pgdown": nothing on an empty list,
\* else the cursor moves and stays within the rows.
ListMove ==
    \E d \in {-PageSize, -1, 1, PageSize} :
        /\ InMode("list")
        /\ ui' = IF Len(filteredIx) = 0 THEN ui
                 ELSE [ui EXCEPT !.cursor =
                          ClampCursor(ui.cursor + d, Len(filteredIx))]
        /\ UNCHANGED <<viewVars, importVars, meta, storeVars, normVars,
                       parseVars, execRes>>

\* handleListKey, "enter": with a selection, MarkUsed, finalHost and quit;
\* without one the key changes nothing.
ListEnter ==
    \E now \in StoreTimes :
        /\ InMode("list")
        /\ LET sel == Selection IN
           IF sel.ok
           THEN /\ \A r \in hosts : r.id = sel.rec.id => r.useCount < MaxUse
                /\ hosts' = MarkUsed(hosts, nextId, sel.rec.id, now, FALSE).hosts
                /\ Quit([ui EXCEPT !.status = <<>>,
                                  !.finalHost = sel.rec.host])
           ELSE UNCHANGED <<hosts, viewVars, ui>>
        /\ UNCHANGED <<nextId, lastCall, importVars, meta, normVars, parseVars, execRes>>

\* handleListKey, "ctrl+a": the add form, empty, the host input focused.
ListAdd ==
    /\ InMode("list")
    /\ ui' = [ui EXCEPT !.mode = "add", !.status = <<>>, !.focus = 0]
    /\ UNCHANGED <<viewVars, importVars, meta, storeVars, normVars, parseVars, execRes>>

\* A mutant of ListEdit: the edit form opens without a selection too.
ListEditUnselected ==
    /\ InMode("list")
    /\ ui' = [ui EXCEPT !.mode = "edit", !.status = <<>>, !.focus = 0]
    /\ UNCHANGED <<viewVars, importVars, meta, storeVars, normVars, parseVars, execRes>>

\* handleListKey, "ctrl+e": the edit form on the selection, if there is one.
ListEdit ==
    /\ InMode("list")
    /\ ui' = IF Selection.ok
             THEN [ui EXCEPT !.mode = "edit", !.status = <<>>, !.focus = 0]
             ELSE ui
    /\ UNCHANGED <<viewVars, importVars, meta, storeVars, normVars, parseVars, execRes>>

\* handleListKey, "ctrl+d": the confirmation, if there is a selection.
ListDelete ==
    /\ InMode("list")
    /\ ui' = IF Selection.ok
             THEN [ui EXCEPT !.mode = "confirm", !.status = <<>>,
                             !.finalHost = <<>>]
             ELSE ui
    /\ UNCHANGED <<viewVars, importVars, meta, storeVars, normVars, parseVars, execRes>>

\* handleListKey, "ctrl+r": ImportFromHistory is called.
ListImport ==
    /\ InMode("list")
    /\ imp.runs < MaxRuns
    /\ imp' = ImportCalled(imp, hosts)
    /\ ui' = [ui EXCEPT !.busy = TRUE]
    /\ UNCHANGED <<hist, viewVars, meta, storeVars, normVars, parseVars, execRes>>

\* handleListKey, "ctrl+r", ImportFromHistory has returned: on an error
\* the status and nothing else; otherwise SetMeta, reload and the count.
ListImportReturned ==
    /\ ui.proc = "running" /\ ui.busy
    /\ imp.phase = "done"
    /\ meta' = ImportDoneAfter(imp.errs, meta)
    /\ IF imp.errs # <<>>
       THEN /\ ui' = [ui EXCEPT !.busy = FALSE,
                                !.status = <<"import error: ">>]
            /\ UNCHANGED viewVars
       ELSE /\ Filtered(ListHosts(hosts), search, FALSE,
                        [ui EXCEPT !.busy = FALSE,
                                   !.status = <<"Imported from history: +",
                                                imp.imported>>])
            /\ UNCHANGED search
    /\ imp' = ImportReturned(imp)
    /\ UNCHANGED <<hist, storeVars, normVars, parseVars, execRes>>

\* Update in list mode, a character typed into the search box:
\* applyFilter(true).
ListType ==
    \E c \in UISearchChars :
        /\ InMode("list")
        /\ Len(search) < MaxQuery
        /\ search' = Append(search, c)
        /\ Filtered(allHosts, Append(search, c), TRUE, ui)
        /\ UNCHANGED <<importVars, meta, storeVars, normVars, parseVars, execRes>>

\* handleFormKey, "esc": back to the list.
FormEsc ==
    /\ InMode("add") \/ InMode("edit")
    /\ ui' = [ui EXCEPT !.mode = "list", !.status = <<>>]
    /\ UNCHANGED <<viewVars, importVars, meta, storeVars, normVars, parseVars, execRes>>

\* handleFormKey, "enter" with the entry e in the inputs: from the host
\* input the focus moves on; from the note input AddHost or UpdateHost is
\* called, an error goes to the status, success reloads and returns to the
\* list.
FormEnter(e) ==
    /\ InMode("add") \/ InMode("edit")
    /\ IF ui.focus = 0
       THEN /\ ui' = [ui EXCEPT !.focus = 1]
            /\ UNCHANGED <<hosts, nextId, viewVars>>
       ELSE LET sel == Selection
                r   == IF ui.mode = "add"
                       THEN AddHost(hosts, nextId, e.host, e.comment, FALSE)
                       ELSE IF sel.ok
                       THEN UpdateHost(hosts, nextId, sel.rec.id, e.host,
                                       e.comment, FALSE)
                       ELSE StoreResult(hosts, nextId, "nil")
            IN /\ r.nextId <= MaxRows + 1
               /\ hosts' = r.hosts
               /\ nextId' = r.nextId
               /\ IF r.err # "nil"
                  THEN /\ ui' = [ui EXCEPT !.status = <<"error: ", r.err>>]
                       /\ UNCHANGED viewVars
                  ELSE /\ Filtered(ListHosts(r.hosts), search, FALSE,
                                   [ui EXCEPT !.mode = "list",
                                              !.status = <<"saved">>])
                       /\ UNCHANGED search
    /\ UNCHANGED <<lastCall, importVars, meta, normVars, parseVars, execRes>>

\* A mutant of ConfirmYes: after DeleteHost the snapshot is replaced and
\* the ranking is left as it was.
ConfirmYesStale ==
    /\ InMode("confirm")
    /\ LET sel == Selection IN
       /\ sel.ok
       /\ hosts' = DeleteHost(hosts, nextId, sel.rec.id, FALSE).hosts
       /\ allHosts' = ListHosts(hosts')
       /\ ui' = [ui EXCEPT !.mode = "list", !.status = <<"deleted">>]
    /\ UNCHANGED <<filteredIx, search, nextId, lastCall, importVars, meta,
                   normVars, parseVars, execRes>>

\* handleFormKey, a key other than "esc" and "enter": it goes to the two
\* inputs, whose text is drawn when the form is submitted.
FormType ==
    /\ InMode("add") \/ InMode("edit")
    /\ UNCHANGED vars

\* handleConfirmKey, "y": DeleteHost on the selection and reload; back to
\* the list.
ConfirmYes ==
    /\ InMode("confirm")
    /\ LET sel == Selection IN
       IF sel.ok
       THEN /\ hosts' = DeleteHost(hosts, nextId, sel.rec.id, FALSE).hosts
            /\ Filtered(ListHosts(hosts'), search, FALSE,
                        [ui EXCEPT !.mode = "list", !.status = <<"deleted">>])
            /\ UNCHANGED search
       ELSE /\ ui' = [ui EXCEPT !.mode = "list"]
            /\ UNCHANGED <<hosts, viewVars>>
    /\ UNCHANGED <<nextId, lastCall, importVars, meta, normVars, parseVars, execRes>>

\* A mutant of ConfirmNo: the record is deleted whatever the answer.
ConfirmNoDeletes == ConfirmYes

\* handleConfirmKey, "n", "N", "esc", "enter": back to the list.
ConfirmNo ==
    /\ InMode("confirm")
    /\ ui' = [ui EXCEPT !.mode = "list", !.status = <<>>]
    /\ UNCHANGED <<viewVars, importVars, meta, storeVars, normVars, parseVars, execRes>>

\* handleConfirmKey, a key of no case of its switch: the model is returned
\* as it is.
ConfirmOther ==
    /\ InMode("confirm")
    /\ UNCHANGED vars

\* The keys pressed in the confirmation.
YesKeys == { "y", "Y" }
NoKeys  == { "n", "N", "esc", "enter" }
ConfirmKeys == YesKeys \cup NoKeys \cup { "q", "ctrl+c", "ctrl+d" }

\* handleConfirmKey(msg), the key being k.
ConfirmKey(k) ==
    IF k \in YesKeys THEN ConfirmYes
    ELSE IF k \in NoKeys THEN ConfirmNo
    ELSE ConfirmOther

NextUI ==
    \/ Launch
    \/ LaunchImportReturned
    \/ OpenFile
    \/ ScanLine
    \/ ReadError
    \/ EndOfFile
    \/ ListQuit
    \/ ListEsc
    \/ ListMove
    \/ ListEnter
    \/ ListAdd
    \/ ListEdit
    \/ ListDelete
    \/ ListImport
    \/ ListImportReturned
    \/ ListType
    \/ FormEsc
    \/ (\E e \in UIFormEntries : FormEnter(e))
    \/ FormType
    \/ (\E k \in ConfirmKeys : ConfirmKey(k))

SpecUI == InitUI /\ [][NextUI]_vars


(***************************************************************************)
(* Properties                                                              *)
(***************************************************************************)
\* The allow-list as the documentation states it: one or more of letters,
\* digits, '.', '_', '-', or '[' + hex digits and ':' + ']'.
AllowListed(h) ==
    \/ h # <<>> /\ Range(h) \subseteq NameChars
    \/ \E mid \in {SubSeq(h, 2, Len(h) - 1)} :
          /\ mid # <<>>
          /\ Range(mid) \subseteq HexColonChars
          /\ h = <<"[">> \o mid \o <<"]">>

\* s without its leading and trailing white space, as the stretch from its
\* first to its last character that is not white space.
Trimmed(s) ==
    LET keep == {i \in DOMAIN s : ~IsSpace(s[i])} IN
    IF keep = {} THEN <<>>
    ELSE SubSeq(s, CHOOSE i \in keep : \A k \in keep : i <= k,
                   CHOOSE i \in keep : \A k \in keep : i >= k)

HostCalls == {"AddHost", "UpdateHost", "ImportHost"}

\* C1: every host stored in the catalog matches the allow-list, and a call
\* of AddHost, UpdateHost or ImportHost whose host normalizeHost rejects
\* returns an error and leaves the catalog unchanged.
C1_StoredHostsAllowListed ==
    /\ [](\A r \in hosts : AllowListed(r.host))
    /\ [][ (lastCall'.op \in HostCalls /\ ~normalizeHost(lastCall'.host).ok)
             => (lastCall'.err # "nil" /\ hosts' = hosts) ]_vars

\* C1 witness: a rejected UpdateHost was made on a catalog that holds a
\* bracketed host and a host that was stored trimmed.
C1_Witness ==
    /\ lastCall.op = "UpdateHost"
    /\ ~normalizeHost(lastCall.host).ok
    /\ \E r \in hosts : r.host = <<"[",":","a","]">>
    /\ \E r \in hosts : r.host = <<"b">>

\* The characters C2 names: space, tab, ';', '|', backquote, quotes.
ShellChars == {" ", "\t", ";", "|", BQ, "'", "\""}

\* C2 as stated: an input with a space, a tab, ';', '|', a backquote or a
\* quote anywhere in it is rejected.
C2_AnyShellCharRejected ==
    (normRes.called /\ \E i \in DOMAIN raw : raw[i] \in ShellChars)
        => ~normRes.ok

\* C2 amended: an input with ';', '|', a backquote or a quote anywhere, or
\* with a space or a tab between two characters that are not white space,
\* is rejected (leading and trailing white space is trimmed instead).
C2_InnerShellCharRejected ==
    (/\ normRes.called
     /\ \E i \in DOMAIN raw :
           /\ raw[i] \in ShellChars
           /\ \/ ~IsSpace(raw[i])
              \/ /\ \E j \in 1..(i-1) : ~IsSpace(raw[j])
                 /\ \E k \in (i+1)..Len(raw) : ~IsSpace(raw[k]))
        => ~normRes.ok

\* C2 witness: a host with a tab inside and spaces around was rejected.
C2_Witness ==
    /\ normRes.called /\ ~normRes.ok
    /\ raw = <<" ", "a", "\t", "a">>

\* C3: normalizeHost succeeds exactly when the trimmed input is non-empty
\* and matches the allow-list, and then returns the trimmed input.
C3_NormalizeIffTrimmedAllowed ==
    normRes.called =>
        /\ normRes.ok <=> (Trimmed(raw) # <<>> /\ AllowListed(Trimmed(raw)))
        /\ normRes.ok => normRes.host = Trimmed(raw)

\* C3 witness: a bracketed host with white space around it was accepted
\* and returned without the white space.
C3_Witness ==
    /\ normRes.called /\ normRes.ok
    /\ raw = <<" ", "[", "a", "]">>
    /\ normRes.host = <<"[", "a", "]">>

\* C4: parseHistoryLine returns not-found (with no host) or a host that
\* normalizeHost accepts and returns unchanged.
C4_ParsedHostIsNormalized ==
    parseRes.called =>
        IF parseRes.ok
        THEN /\ normalizeHost(parseRes.host).ok
             /\ normalizeHost(parseRes.host).host = parseRes.host
        ELSE parseRes.host = <<>>

\* C4 witness: a line whose first target fails normalisation gave
\* not-found, although a valid target follows it.
C4_Witness ==
    /\ parseRes.called /\ ~parseRes.ok
    /\ line = <<"s","s","h"," ","a",";","b"," ","a">>

\* The import has returned.
ImportDone == imp.phase = "done"

\* The hosts of a set of rows, the hosts a source holds, and how many lines
\* of a source hold a given host.
HostNames(H) == {r.host : r \in H}
ParsedHosts(f) ==
    {parseHistoryLine(f.lines[i]).host :
        i \in {k \in DOMAIN f.lines : parseHistoryLine(f.lines[k]).ok}}
Occurrences(f, h) ==
    Cardinality({k \in DOMAIN f.lines :
                    /\ parseHistoryLine(f.lines[k]).ok
                    /\ parseHistoryLine(f.lines[k]).host = h})

\* The calls of ImportHost of the run that returned no error: the hosts the
\* run counted.
HandedOk == {k \in DOMAIN imp.handed : imp.handed[k].err = "nil"}

\* C12: within one run each host is handed to ImportHost at most once,
\* whatever the outcome of the insertions and reads.
C12_HandedAtMostOnce ==
    \A i, j \in DOMAIN imp.handed :
        i # j => imp.handed[i].host # imp.handed[j].host

\* C13: the returned count counts only hosts whose insertion added a record:
\* it is at most the number of records the run added.
C13_CountOnlyNewRecords ==
    ImportDone => imp.imported <= Cardinality(hosts \ imp.before)

\* C14: in a run in which no open, read or insertion fails, a host that
\* stands once in each of two sources and was not in the catalog is handed
\* to ImportHost once, is counted once, and is inserted once; the returned
\* count is the number of hosts counted.
C14_SameHostInTwoSourcesCountsOnce ==
    (ImportDone /\ imp.failed = {}) =>
        \A i, j \in DOMAIN hist :
            i < j =>
                \A h \in ParsedHosts(hist[i]) :
                    (/\ Occurrences(hist[i], h) = 1
                     /\ Occurrences(hist[j], h) = 1
                     /\ h \notin HostNames(imp.before))
                    => /\ Cardinality({k \in DOMAIN imp.handed :
                                          imp.handed[k].host = h}) = 1
                       /\ Cardinality({k \in HandedOk :
                                          imp.handed[k].host = h}) = 1
                       /\ Cardinality({r \in hosts \ imp.before :
                                          r.host = h}) = 1
                       /\ imp.imported = Cardinality(HandedOk)

\* C14 witness: two sources that each hold "ssh a", an empty catalog, a run
\* without failure that returned 1.
C14_Witness ==
    /\ ImportDone /\ imp.failed = {}
    /\ Len(hist) = 2 /\ hist[1] = hist[2]
    /\ hist[1].lines = << <<"s","s","h"," ","a">> >>
    /\ imp.before = {}
    /\ imp.imported = 1

\* C15: a failure on a source is recorded in the returned error and does
\* not stop the run: every source was tried, and the hosts of every source
\* that did not fail are in the catalog.
C15_FailureDoesNotStopRun ==
    ImportDone =>
        /\ imp.opened = DOMAIN hist
        /\ \A i \in imp.failed : \E k \in DOMAIN imp.errs : imp.errs[k] = i
        /\ \A j \in DOMAIN hist :
              (j \notin imp.failed /\ ~hist[j].missing)
                  => ParsedHosts(hist[j]) \subseteq HostNames(hosts)

\* C15 witness: the first source failed and a host of the second source was
\* inserted after that.
C15_Witness ==
    /\ ImportDone
    /\ Len(hist) = 2
    /\ imp.failed = {1}
    /\ imp.errs = <<1>>
    /\ \E k \in DOMAIN imp.handed :
          /\ imp.handed[k].file = 2
          /\ imp.handed[k].err = "nil"
          /\ imp.handed[k].host \in HostNames(hosts \ imp.before)

\* C16: a source that does not exist is never in the returned error and
\* hands no host; when no open, read or insertion failed the returned error
\* is nil.
C16_MissingSourceNoError ==
    ImportDone =>
        /\ \A k \in DOMAIN imp.errs : ~hist[imp.errs[k]].missing
        /\ \A k \in DOMAIN imp.handed : ~hist[imp.handed[k].file].missing
        /\ imp.failed = {} => imp.errs = <<>>

\* C16 witness: the first source does not exist, the second gave a host,
\* the run returned that one host and a nil error.
C16_Witness ==
    /\ ImportDone
    /\ Len(hist) = 2
    /\ hist[1].missing /\ ~hist[2].missing
    /\ imp.opened = {1, 2}
    /\ imp.errs = <<>>
    /\ imp.imported = 1

\* C17: the returned count is the number of hosts the run handed to the
\* catalog with success, over all sources, also of a source that failed
\* after some of its hosts were inserted.
C17_CountIsTotalHanded ==
    ImportDone => imp.imported = Cardinality(HandedOk)

\* C18: ImportHost on a host that is already in the catalog, when the
\* database itself does not fail, returns no error and leaves the table as
\* it was; and a run that follows a run without error over the same history
\* leaves the table as it found it.
C18_ImportExistingIsNoOp ==
    /\ [][ Len(imp'.handed) = Len(imp.handed) + 1
             => LET e == imp'.handed[Len(imp'.handed)] IN
                (e.host \in HostNames(hosts) /\ e.err # "db")
                    => (e.err = "nil" /\ hosts' = hosts) ]_vars
    /\ []((ImportDone /\ imp.runs >= 2 /\ imp.prevClean)
             => hosts = imp.before)

\* C18 witness: a second run after a clean first one handed over a host
\* that the user had saved with a note and used, and the table is as the
\* run found it.
C18_Witness ==
    /\ ImportDone /\ imp.runs = 2 /\ imp.prevClean
    /\ imp.handed # <<>>
    /\ hosts = imp.before
    /\ \E r \in hosts :
          /\ r.host = imp.handed[1].host
          /\ r.comment = <<"n">>
          /\ r.useCount = 1

\* The fields of the classified line.
LineFields == Fields(StripHistoryPrefix(TrimSpace(ansiStrip(line))))

\* The value-taking flags as C19 lists them.
ValueFlags ==
    { <<"-", c>> : c \in {"b","c","D","E","F","I","i","J","L","l","m","o",
                          "p","Q","R","S","W","w"} }

\* Field i is the value of a value-taking flag: the field before it is such
\* a flag and is not itself a value.
RECURSIVE IsValue(_, _, _)
IsValue(fs, s, i) ==
    /\ i > s + 1
    /\ fs[i-1] \in ValueFlags
    /\ ~IsValue(fs, s, i - 1)

\* Field i is a bare token: after the ssh token, not a flag, not a consumed
\* flag value, not "--".
Bare(fs, s, i) ==
    /\ i > s
    /\ ~IsValue(fs, s, i)
    /\ fs[i] # <<"-", "-">>
    /\ ~HasPrefix(fs[i], <<"-">>)

\* The command line "ssh" followed by the given fields, one space between.
RECURSIVE JoinFields(_)
JoinFields(fs) ==
    IF fs = <<>> THEN <<>>
    ELSE IF Len(fs) = 1 THEN fs[1]
    ELSE fs[1] \o <<" ">> \o JoinFields(Tail(fs))

SshLine(fs) == JoinFields(<<<<"s","s","h">>>> \o fs)

\* C19: a value-taking flag after the ssh token that is not itself consumed
\* and precedes the target consumes the next field whatever it looks like:
\* the line is classified as the line without the flag and its value, for
\* each of the eighteen value-taking flags in the flag's place.
C19_ValueFlagConsumesNext ==
    parseRes.called =>
        LET fs == LineFields
            s  == SshIndex(fs)
        IN s > 0 =>
            \A i \in (s + 1)..(Len(fs) - 1) :
                (/\ fs[i] \in ValueFlags
                 /\ ~IsValue(fs, s, i)
                 /\ \A k \in (s + 1)..(i - 1) : ~Bare(fs, s, k))
                => LET rest    == SubSeq(fs, i + 2, Len(fs))
                       without == parseHistoryLine(SshLine(rest))
                   IN /\ parseRes.ok = without.ok
                      /\ parseRes.host = without.host
                      /\ \A F \in ValueFlags :
                            parseHistoryLine(
                                SshLine(<<F, fs[i + 1]>> \o rest)) = without

\* C19 witness: "-p" followed by "-p": the second is consumed as a value,
\* so that the field after it is the target.
C19_Witness ==
    /\ parseRes.called /\ parseRes.ok
    /\ parseRes.host = <<"a">>
    /\ line = <<"s","s","h"," ","-","p"," ","-","p"," ","a">>

\* C20: the result is decided by the first bare token after the ssh token:
\* it is the validated host of that token, not-found when that token fails
\* validation, and not-found when there is no bare token.
C20_FirstBareTokenDecides ==
    parseRes.called =>
        LET fs   == LineFields
            s    == SshIndex(fs)
            bare == {i \in DOMAIN fs : Bare(fs, s, i)}
        IN s > 0 =>
            IF bare = {}
            THEN ~parseRes.ok
            ELSE LET first == CHOOSE i \in bare : \A k \in bare : i <= k
                     norm  == normalizeHost(TargetHost(fs[first]))
                 IN IF TargetHost(fs[first]) # <<>> /\ norm.ok
                    THEN parseRes.ok /\ parseRes.host = norm.host
                    ELSE ~parseRes.ok

\* C20 witness: the first bare token fails validation and a valid host
\* follows it: not-found.
C20_Witness ==
    /\ parseRes.called /\ ~parseRes.ok
    /\ line = <<"s","s","h"," ","-","v"," ","a",";","b"," ","u","@","a">>

\* The query of the current ranking and the matches it is computed from.
Query      == TrimSpace(search)
ScoreOf(i) == FuzzyMatch(ToLower(Query), haystackOf(allHosts[i])).score
Matches    == fuzzyFind(ToLower(Query),
                        [i \in DOMAIN allHosts |-> haystackOf(allHosts[i])])
HasTime(h) == h.lastUsedAt # 0

\* C5: for a non-empty query the comparator orders any two distinct matched
\* records: exactly one of them sorts before the other.
C5_ComparatorTotal ==
    Query # <<>> =>
        \A mi, mj \in Matches :
            mi # mj => (sortLess(allHosts, mi, mj) # sortLess(allHosts, mj, mi))

\* C6: for a non-empty query the ranking is by descending score, then a
\* record with a last-used time before one without, then the more recently
\* used first, and the remaining ties by ascending host.
C6_RankingOrder ==
    Query # <<>> =>
        \A i, j \in DOMAIN filteredIx :
            i < j =>
                LET a  == allHosts[filteredIx[i]]
                    b  == allHosts[filteredIx[j]]
                    sa == ScoreOf(filteredIx[i])
                    sb == ScoreOf(filteredIx[j])
                IN /\ sa >= sb
                   /\ sa = sb => (HasTime(b) => HasTime(a))
                   /\ (sa = sb /\ HasTime(a) /\ HasTime(b))
                         => a.lastUsedAt >= b.lastUsedAt
                   /\ (sa = sb /\ HasTime(a) = HasTime(b)
                             /\ a.lastUsedAt = b.lastUsedAt)
                         => StrLess(a.host, b.host)

C9_EmptyQueryIdentity ==
    Query = <<>> => filteredIx = [i \in DOMAIN allHosts |-> i]

\* C9 witness: a search box that holds only a space, over a snapshot of two
\* records, one of them used.
C9_Witness ==
    /\ search = <<" ">>
    /\ Len(allHosts) = 2
    /\ filteredIx = <<1, 2>>
    /\ HasTime(allHosts[1]) /\ ~HasTime(allHosts[2])

\* C11: computing a ranking has no side effects.  A step that types into
\* the search box only appends the typed character to the search text and
\* leaves the snapshot and the store as they were; a step that clears the
\* search box without touching the store leaves the snapshot as it was.
C11_RankingHasNoSideEffects ==
    [][ /\ (search' # search /\ search' # <<>>)
            => /\ \E c \in SearchChars : search' = Append(search, c)
               /\ allHosts' = allHosts
               /\ hosts' = hosts /\ nextId' = nextId
        /\ (search # <<>> /\ search' = <<>> /\ hosts' = hosts)
            => allHosts' = allHosts ]_vars

\* C11 witness: a ranking that puts the second record of the snapshot
\* before the first because it scores higher, over a snapshot that is still
\* the store's list.
C11_Witness ==
    /\ Query # <<>>
    /\ Len(allHosts) = 2
    /\ filteredIx = <<2, 1>>
    /\ ScoreOf(2) > ScoreOf(1)
    /\ allHosts = ListHosts(hosts)

\* p is a subsequence of s: its characters appear in s in order.
IsSubsequence(p, s) ==
    \E f \in [DOMAIN p -> DOMAIN s] :
        /\ \A i, j \in DOMAIN p : i < j => f[i] < f[j]
        /\ \A i \in DOMAIN p : s[f[i]] = p[i]

\* C10: for a non-empty query an index is in the ranking exactly when the
\* lower-cased query is a subsequence of the lower-cased host + " " + note.
C10_RankedIffSubsequence ==
    Query # <<>> =>
        \A i \in DOMAIN allHosts :
            (i \in Range(filteredIx))
                <=> IsSubsequence(ToLower(Query),
                        ToLower(allHosts[i].host \o <<" ">> \o allHosts[i].comment))

\* C10 witness: the query "aB" ranks a record whose host is "a" and whose
\* note is "b" and leaves out a record that does not match.
C10_Witness ==
    /\ Query = <<"a", "B">>
    /\ Len(allHosts) = 2
    /\ Len(filteredIx) = 1
    /\ allHosts[filteredIx[1]].host = <<"a">>
    /\ allHosts[filteredIx[1]].comment = <<"b">>

\* A field that names the ssh command, the "/ssh" ending compared as
\* written and compared in any letter case.
IsSshFieldExactSuffix(f) ==
    \/ ToLower(f) = <<"s","s","h">>
    \/ HasSuffix(f, <<"/","s","s","h">>)

IsSshFieldAnyCase(f) ==
    \/ ToLower(f) = <<"s","s","h">>
    \/ HasSuffix(ToLower(f), <<"/","s","s","h">>)

\* C21 as stated: a line none of whose fields is "ssh" in any letter case
\* or ends with "/ssh" is not-found; otherwise the result is the
\* classification of the fields after the first such field.
C21_NoSshFieldNotFound ==
    parseRes.called =>
        LET fs  == LineFields
            ssh == {i \in DOMAIN fs : IsSshFieldExactSuffix(fs[i])}
        IN IF ssh = {}
           THEN ~parseRes.ok
           ELSE LET first == CHOOSE i \in ssh : \A k \in ssh : i <= k
                    after == ScanFields(fs, first + 1, FALSE)
                IN parseRes.ok = after.ok /\ parseRes.host = after.host

\* C21 amended: the same with the "/ssh" ending compared in any letter
\* case, as the exact match is.
C21_NoSshFieldAnyCaseNotFound ==
    parseRes.called =>
        LET fs  == LineFields
            ssh == {i \in DOMAIN fs : IsSshFieldAnyCase(fs[i])}
        IN IF ssh = {}
           THEN ~parseRes.ok
           ELSE LET first == CHOOSE i \in ssh : \A k \in ssh : i <= k
                    after == ScanFields(fs, first + 1, FALSE)
                IN parseRes.ok = after.ok /\ parseRes.host = after.host

\* C21 witness: the command is spelled "x/SSH", a second ssh field follows
\* it and is the target.
C21_Witness ==
    /\ parseRes.called /\ parseRes.ok
    /\ parseRes.host = <<"s","s","h">>
    /\ line = <<"a"," ","x","/","S","S","H"," ","s","s","h"," ","a">>

\* The text starts with ": ", digits, ":", digits, ";".
HasExtendedPrefix(t) ==
    \E i, j \in 1..Len(t) :
        /\ 3 < i /\ i + 1 < j
        /\ HasPrefix(t, <<":", " ">>)
        /\ t[i] = ":" /\ t[j] = ";"
        /\ \A k \in 3..(i - 1) : t[k] \in Digits
        /\ \A k \in (i + 1)..(j - 1) : t[k] \in Digits

\* The classification of a text taken as it is, no prefix discarded.
ClassifyText(t) ==
    LET fs == Fields(t)
        s  == SshIndex(fs)
    IN IF s = 0 THEN ParseNone ELSE ScanFields(fs, s + 1, FALSE)

\* C22: the text up to and including the first ';' is discarded only when
\* the line has the extended-history prefix; every other line, one that
\* starts with ": " without the two digit fields included, is classified
\* on its whole text.
C22_PrefixDiscardedOnlyWhenExtended ==
    parseRes.called =>
        LET t        == TrimSpace(ansiStrip(line))
            expected == IF HasExtendedPrefix(t)
                        THEN ClassifyText(Drop(t, IndexChar(t, ";") + 1))
                        ELSE ClassifyText(t)
        IN parseRes.ok = expected.ok /\ parseRes.host = expected.host

\* The first bare token of the classified line, <<>> when there is none.
FirstBareToken ==
    LET fs   == LineFields
        s    == SshIndex(fs)
        bare == {i \in DOMAIN fs : Bare(fs, s, i)}
    IN IF s = 0 \/ bare = {} THEN <<>>
       ELSE fs[CHOOSE i \in bare : \A k \in bare : i <= k]

\* The part of a token after its last '@'.
AfterLastAt(token) ==
    LET ats == {i \in DOMAIN token : token[i] = "@"}
    IN SubSeq(token, (CHOOSE i \in ats : \A k \in ats : k <= i) + 1,
              Len(token))

\* A string without the brackets around it: what lies between its first
\* and its last character that is not a bracket.
Unbracketed(s) ==
    LET inner == {i \in DOMAIN s : s[i] \notin {"[", "]"}}
    IN IF inner = {} THEN <<>>
       ELSE SubSeq(s, CHOOSE i \in inner : \A k \in inner : i <= k,
                      CHOOSE i \in inner : \A k \in inner : k <= i)

\* C23: when the target token contains '@', the result is the part after
\* the last '@' without the brackets around it if that part passes the
\* normaliser, and not-found if it does not; a host returned holds no part
\* of the user name and no '@'.
C23_HostIsAfterLastAt ==
    parseRes.called =>
        LET token == FirstBareToken IN
        ContainsChar(token, "@") =>
            LET part == Unbracketed(AfterLastAt(token)) IN
            IF AllowListed(part)
            THEN /\ parseRes.ok
                 /\ parseRes.host = part
                 /\ ~ContainsChar(parseRes.host, "@")
            ELSE ~parseRes.ok

\* C23 witness: the target "w@u@[a]" gives the host "a".
C23_Witness ==
    /\ parseRes.called /\ parseRes.ok
    /\ parseRes.host = <<"a">>
    /\ line = <<"s","s","h"," ","-","v"," ","w","@","u","@","[","a","]">>

\* C24: a field after the ssh token that starts with '-', is not exactly a
\* value-taking flag, is not a consumed flag value and precedes the target
\* (a combined short form, a token with '=', an unknown flag, "--") is
\* skipped and nothing else: the line is classified as the line without
\* that field, so the field after it is neither consumed nor, after "--",
\* read differently.
C24_OtherFlagsSkippedAlone ==
    parseRes.called =>
        LET fs == LineFields
            s  == SshIndex(fs)
        IN s > 0 =>
            \A i \in (s + 1)..Len(fs) :
                (/\ HasPrefix(fs[i], <<"-">>)
                 /\ fs[i] \notin ValueFlags
                 /\ ~IsValue(fs, s, i)
                 /\ \A k \in (s + 1)..(i - 1) : ~Bare(fs, s, k))
                => LET without == parseHistoryLine(SshLine(
                                      SubSeq(fs, s + 1, i - 1)
                                      \o SubSeq(fs, i + 1, Len(fs))))
                   IN /\ parseRes.ok = without.ok
                      /\ parseRes.host = without.host

\* C24 witness: a combined short form, "--" and an unknown flag precede
\* the target, which is found.
C24_Witness ==
    /\ parseRes.called /\ parseRes.ok
    /\ parseRes.host = <<"a">>
    /\ line = <<"s","s","h"," ","-","p","2","2"," ","-","-"," ","-","v",
                " ","a">>

\* C30: no host returned by parseHistoryLine begins with '-', whether the
\* target token is taken whole or follows a user@ prefix.
C30_NoHostBeginsWithDash ==
    (parseRes.called /\ parseRes.ok) =>
        ~HasPrefix(parseRes.host, <<"-">>)

\* C25: normalizeHost is idempotent on its successes: a host it returned
\* is accepted when given to it again and comes back unchanged.
C25_NormalizeIdempotent ==
    (normRes.called /\ normRes.ok) =>
        LET again == normalizeHost(normRes.host)
        IN again.ok /\ again.host = normRes.host

\* C25 witness: a bracketed host typed with a tab before it was accepted.
C25_Witness ==
    /\ normRes.called /\ normRes.ok
    /\ raw = <<"\t", "[", ":", "]">>
    /\ normRes.host = <<"[", ":", "]">>

\* The form holds a host that the normaliser rejects, or one that another
\* record of the table has already.
FormHostRefused(e) ==
    \/ ~AllowListed(Trimmed(e.host))
    \/ \E r \in hosts :
          /\ r.host = Trimmed(e.host)
          /\ ui.mode = "edit" => r.id # Selection.rec.id

\* C26: submitting the add or the edit form with a host that the normaliser
\* rejects or that another record has already shows an error in the
\* status, leaves the UI in the same form mode, and changes neither the
\* table nor the snapshot and its ranking.
C26_RefusedFormChangesNothing ==
    [][\A e \in UIFormEntries :
          (FormEnter(e) /\ ui.focus = 1 /\ FormHostRefused(e))
          => /\ Len(ui'.status) = 2
             /\ ui'.status[1] = "error: "
             /\ ui'.status[2] # "nil"
             /\ ui'.mode = ui.mode
             /\ ui'.proc = "running"
             /\ hosts' = hosts
             /\ allHosts' = allHosts
             /\ filteredIx' = filteredIx]_vars

\* C26 witness: the edit form was submitted with the host of another
\* record and shows the conflict.
C26_Witness ==
    /\ ui.proc = "running" /\ ui.mode = "edit"
    /\ ui.status = <<"error: ", "UNIQUE constraint failed">>
    /\ Cardinality(hosts) = 2

\* C27: whenever the UI is in list mode, has not quit and is not inside a
\* key handler, the snapshot is the current listing of the store, also
\* after a ctrl+r import that inserted hosts from some sources and
\* reported an error for another.
C27_SnapshotFollowsStore ==
    InMode("list") => allHosts = ListHosts(hosts)

\* C28: a launch runs the import iff import_done is not "1"; import_done
\* changes only to "1" and only when an import has just returned no error;
\* once it is "1" it stays "1", and an import is then started by ctrl+r in
\* the list only.
C28_AutoImportIffNotDone ==
    [][/\ (ui.proc = "stopped" /\ ui'.proc # "stopped")
          => ((imp'.runs = imp.runs + 1) <=> (meta # <<"1">>))
       /\ (meta' # meta)
          => (meta' = <<"1">> /\ imp.phase = "done" /\ imp.errs = <<>>)
       /\ (meta = <<"1">>) => (meta' = <<"1">>)
       /\ (meta = <<"1">> /\ imp'.runs # imp.runs)
          => (InMode("list") /\ ui'.busy)]_vars

\* C28 witness: import_done is "1", a host was used (which ends the
\* program), and the program runs again with one import in all.
C28_Witness ==
    /\ ui.proc = "running"
    /\ meta = <<"1">>
    /\ imp.runs = 1
    /\ \E r \in hosts : r.useCount = 1

HostIds(H) == { r.id : r \in H }

\* C31: a step removes a record from the table only if it is "y" or "Y"
\* pressed in the confirmation, and it removes the record that was the
\* selection when ctrl+d was pressed: ctrl+d enters the confirmation on a
\* selection, which no step changes while the confirmation lasts, and "y"
\* removes exactly that record and returns to the list; "n", "N", "esc" and
\* "enter" return to the list and leave the table as it is; every other
\* key changes nothing.  (No database failure of DeleteHost is considered.)
C31_DeleteOnlyByConfirmedYes ==
    [][/\ (HostIds(hosts) \ HostIds(hosts') # {})
          => \E k \in YesKeys : ConfirmKey(k)
       /\ (ui'.proc = "running" /\ ui'.mode = "confirm")
          => /\ Selection.ok
             /\ Selection' = Selection
             /\ ui.mode = "list" => ListDelete
       /\ \A k \in YesKeys :
             ConfirmKey(k)
             => /\ ui'.mode = "list"
                /\ hosts' = { r \in hosts : r.id # Selection.rec.id }
                /\ Selection.rec.id \in HostIds(hosts)
       /\ \A k \in NoKeys :
             ConfirmKey(k) => (ui'.mode = "list" /\ hosts' = hosts)
       /\ \A k \in ConfirmKeys \ (YesKeys \cup NoKeys) :
             ConfirmKey(k) => (ui'.mode = "confirm" /\ hosts' = hosts)]_vars

\* C31 witness: of two records shown, the second was deleted by "y" and
\* the first is the only one left in the table and in the snapshot.
C31_Witness ==
    /\ ui.proc = "running" /\ ui.mode = "list"
    /\ ui.status = <<"deleted">>
    /\ Cardinality(hosts) = 1
    /\ Len(allHosts) = 1
    /\ \E r \in hosts : r.id = 1 /\ nextId = 3

\* C32: in every state of the UI filteredIx lists positions of allHosts,
\* none of them twice, and when currentSelection reports a selection the
\* cursor is a row of filteredIx and the record reported is the record of
\* the snapshot at the position that row names.
C32_RankingWithinSnapshot ==
    /\ \A i \in 1..Len(filteredIx) : filteredIx[i] \in 1..Len(allHosts)
    /\ \A i, j \in 1..Len(filteredIx) :
          filteredIx[i] = filteredIx[j] => i = j
    /\ Selection.ok
       => /\ ui.cursor \in 0..(Len(filteredIx) - 1)
          /\ \E p \in 1..Len(allHosts) :
                /\ p = filteredIx[ui.cursor + 1]
                /\ Selection.rec = allHosts[p]

\* C32 witness: the UI shows, for the query "c", the second of the two
\* records of the snapshot as its only row, and it is the selection.
C32_Witness ==
    /\ ui.proc = "running" /\ ui.mode = "list"
    /\ search = <<"c">>
    /\ Len(allHosts) = 2 /\ filteredIx = <<2>>
    /\ Selection.ok /\ Selection.rec.host = <<"c">>

\* A bracketed IPv6 literal: hexadecimal digits and colons, at least one
\* colon, between '[' and ']'.
IsBracketedIPv6(s) ==
    /\ Len(s) >= 3
    /\ s[1] = "[" /\ s[Len(s)] = "]"
    /\ \A i \in 2..(Len(s) - 1) : s[i] \in HexColonChars
    /\ \E i \in 2..(Len(s) - 1) : s[i] = ":"

\* C33: a line whose target, after its user part if it has one, is a
\* bracketed IPv6 literal gives not-found, and no line gives a host that
\* contains ':', '[' or ']'.
C33_BracketedIPv6NotFound ==
    parseRes.called =>
        LET token == FirstBareToken
            part  == IF ContainsChar(token, "@") THEN AfterLastAt(token)
                     ELSE token
        IN /\ IsBracketedIPv6(part) => ~parseRes.ok
           /\ parseRes.ok
              => \A i \in DOMAIN parseRes.host :
                    parseRes.host[i] \notin {":", "[", "]"}

\* C33 witness: the line "ssh a@[:a]" was classified and gave not-found.
C33_Witness ==
    /\ parseRes.called /\ ~parseRes.ok
    /\ line = <<"s","s","h"," ","a","@","[",":","a","]">>
    /\ IsBracketedIPv6(AfterLastAt(FirstBareToken))

Modes == { "list", "add", "edit", "confirm" }

\* What C34 states apart from the cursor: the mode is one of four; the
\* edit form and the confirmation open only from the list and only on a
\* selection; "esc" in a form returns to the list and leaves the table and
\* the snapshot as they are; outside the list no key changes the search
\* text; and a save in edit mode rewrites the record that was the
\* selection when the form opened, which no step changes while the form is
\* open, and no other record.
ModesStep ==
    /\ ui.mode \in Modes /\ ui'.mode \in Modes
    /\ (ui'.mode \in {"edit", "confirm"} /\ ui'.mode # ui.mode)
       => (InMode("list") /\ Selection.ok)
    /\ FormEsc => /\ ui'.mode = "list"
                  /\ hosts' = hosts
                  /\ allHosts' = allHosts
    /\ (ui.proc = "running" /\ ui.mode # "list") => search' = search
    /\ (ui'.proc = "running" /\ ui'.mode = "edit")
       => (Selection.ok /\ Selection' = Selection)
    /\ \A e \in UIFormEntries :
          (FormEnter(e) /\ ui.mode = "edit" /\ ui.focus = 1
                       /\ ui'.mode = "list")
          => LET id == Selection.rec.id IN
             /\ \E r \in hosts, u \in hosts' :
                   /\ r.id = id /\ u.id = id
                   /\ u.host = Trimmed(e.host)
                   /\ u.comment = e.comment
             /\ \A r \in hosts : r.id # id => r \in hosts'
             /\ HostIds(hosts') = HostIds(hosts)

\* C34 as stated: as above, and outside the list no key changes the
\* cursor.
C34_NoKeyMovesCursorOutsideList ==
    [][/\ ModesStep
       /\ (ui.proc = "running" /\ ui.mode # "list")
          => ui'.cursor = ui.cursor]_vars

\* C34, amended: as above, and outside the list the cursor changes only in
\* the step of a successful save or of a confirmed delete, whose reload
\* puts the cursor back within the rows if there are any.
C34_CursorMovesOnlyOnReload ==
    [][/\ ModesStep
       /\ (ui.proc = "running" /\ ui.mode # "list"
                               /\ ui'.cursor # ui.cursor)
          => /\ ui'.mode = "list"
             /\ ui'.status \in { <<"saved">>, <<"deleted">> }
             /\ Len(filteredIx') > 0
                => ui'.cursor \in 0..(Len(filteredIx') - 1)]_vars

\* C34 witness: the record the import made for "a" was saved from the edit
\* form with the host "c".
C34_Witness ==
    /\ ui.proc = "running" /\ ui.mode = "list"
    /\ ui.status = <<"saved">>
    /\ \E r \in hosts : r.id = 1 /\ r.host = <<"c">>

\* A row has a last-used time exactly when it has been used.
UseFieldsAgree(r) ==
    /\ r.useCount >= 0
    /\ r.lastUsedAt # 0 <=> r.useCount >= 1

\* C35: after any sequence of calls of AddHost, ImportHost, UpdateHost,
\* MarkUsed and DeleteHost, failed ones included, every row has a use count
\* of at least 0 and a last-used time exactly when the count is at least 1;
\* a row starts with the count 0 and no time; and a step changes the count
\* or the time of a row only if it is a call of MarkUsed, which adds exactly
\* one to the count of one row and leaves those of the others.
C35_UseCountAndTimestamp ==
    /\ [](\A r \in hosts : UseFieldsAgree(r))
    /\ [][/\ \A u \in hosts' :
                u.id \notin HostIds(hosts)
                => (u.useCount = 0 /\ u.lastUsedAt = 0)
          /\ LET changed == { r \in hosts : \E u \in hosts' :
                                 /\ u.id = r.id
                                 /\ \/ u.useCount # r.useCount
                                    \/ u.lastUsedAt # r.lastUsedAt }
             IN changed # {}
                => /\ CallMarkUsed
                   /\ lastCall'.err = "nil"
                   /\ Cardinality(changed) = 1
                   /\ \A r \in changed : \E u \in hosts' :
                         /\ u.id = r.id
                         /\ u.useCount = r.useCount + 1
                         /\ u.lastUsedAt # 0]_vars

\* C35 witness: of two rows one has been used once and has a time, the
\* other has never been used and has none.
C35_Witness ==
    /\ lastCall.op = "MarkUsed" /\ lastCall.err = "nil"
    /\ \E r, u \in hosts :
          /\ r.useCount = 1 /\ r.lastUsedAt # 0
          /\ u.useCount = 0 /\ u.lastUsedAt = 0

\* C36: a process is started only with a host that normalizeHost accepts,
\* and with that host as normalizeHost returns it: as the argument of ssh on
\* Windows, single-quoted after "exec ssh " in the command of the login
\* shell elsewhere; and when normalizeHost rejects the host the call
\* returns its error, has not reset the terminal and has started no process.
C36_ExecOnlyValidatedHost ==
    execRes.called =>
        LET norm == normalizeHost(raw)
            argv == execRes.argv
        IN /\ execRes.started
              => /\ norm.ok
                 /\ execRes.reset
                 /\ \/ argv = <<"ssh", norm.host>>
                    \/ /\ Len(argv) \in {4, 5}
                       /\ argv[Len(argv) - 1] = "-c"
                       /\ argv[Len(argv)] =
                             <<"exec ssh ", "'">> \o norm.host \o <<"'">>
           /\ ~norm.ok
              => /\ execRes.err = norm.err
                 /\ execRes.err # "nil"
                 /\ ~execRes.reset
                 /\ ~execRes.started
                 /\ execRes.argv = <<>>

\* C36 witness: the call with the host "a;" returned the error of the
\* normaliser.
C36_Witness ==
    /\ execRes.called
    /\ raw = <<"a", ";">>
    /\ execRes.err = "invalid host format"
    /\ ~execRes.reset /\ ~execRes.started

====
